---- MODULE Spec2Model ----
(***************************************************************************)
(* Room relay (server/index.js) and the video room's peer-connection       *)
(* orchestrator (Room1VideoOnly.jsx, useWebSocket.js).                     *)
(*                                                                         *)
(* Spec        : the relay alone; sockets connect, join and leave rooms,   *)
(*               send Talk-room messages, and close.                       *)
(* SpecDraw    : the relay's drawing room: membership, strokes, clears.    *)
(* SpecHistory : the relay with one member of the drawing room, drawing    *)
(*               past the capacity of the stroke history.                  *)
(* SpecRtc     : two clients entering the video room through the relay,    *)
(*               each running the orchestrator of Room1VideoOnly.          *)
(* SpecLink    : two clients of the video room after the handshake: the    *)
(*               transport's reports and the recovery timers.              *)
(* SpecSeen    : the relay with one participant ID per socket, and what    *)
(*               each socket was told of the others.                       *)
(* SpecWire    : the relay's drawing room with the order of the drawing    *)
(*               messages written to each socket.                          *)
(* SpecInput   : the relay with sockets that also send input no room       *)
(*               handler takes.                                            *)
(* SpecVisit   : one page entering and leaving the video room while a      *)
(*               peer comes and goes.                                      *)
(* SpecPart    : one page with a connection to a peer that leaves.         *)
(* SpecSignal  : one page in the video room signalled by a peer.           *)
(* SpecGlare   : one page in the video room that offers a connection to a  *)
(*               peer whose own offers arrive meanwhile.                   *)
(* SpecRenew   : that page while the transport of its connection reports   *)
(*               its state and the recovery timer runs.                    *)
(* SpecOnline  : two clients (useWebSocket.js, App.jsx) that enter, change *)
(*               and leave rooms while their sockets drop and reopen.      *)
(* SpecRejoin  : one of these clients alone, with the reconnect timer and  *)
(*               the relay's close events bound to happen.                 *)
(* SpecAudio   : one page entering the audio room (Room2AudioOnly.jsx)     *)
(*               while a peer comes, goes and sends offers.                *)
(***************************************************************************)
EXTENDS Integers, Sequences, FiniteSets, TLC

\* ------------------------------------------------------------------ bounds
MaxStrokes == 2          \* draw_stroke messages handled in a run of SpecDraw
MaxHistoryStrokes == 103 \* draw_stroke messages handled in a run of SpecHistory
MaxWire == 3            \* drawing messages kept per socket in a run of SpecWire
MaxPeerVisits == 2      \* times the peer enters the video room in a run of SpecVisit
MaxLinks == 2           \* connections the page holds when the peer may cause one more
MaxInbox == 2           \* unread messages of the page when the peer may cause more
MaxPending == 2         \* entries of a pending queue when the peer may cause one more
MaxDrops == 1           \* sockets that drop in a run of SpecOnline or SpecRejoin
MaxMoves == 2           \* times a client enters, changes or leaves a room in SpecOnline

\* ------------------------------------------------------- program constants
MAX_DRAWING_HISTORY == 100
NoRoom == 0              \* currentRoom = null
TalkRoom == 3
DrawRoom == 4

VideoRoom == 1           \* the room ZoneView renders Room1VideoOnly for
AudioRoom == 2           \* the room ZoneView renders Room2AudioOnly for
UnknownRoom == 5         \* a room of the client's ROOMS that rooms has no key for

Sockets == {1, 2}        \* the connections the server accepts in a run
Pids == {"a", "b"}       \* participant IDs a client may put in a join
NoPid == "null"          \* participantId = null
RoomIds == 1..4          \* the keys of rooms
JoinRoomIds == {TalkRoom, DrawRoom, UnknownRoom}  \* roomId of a join
MsgIds == {"m1"}
RtcKinds == {"rtc_offer", "rtc_answer", "rtc_ice_candidate"}
Payloads == {"x", "y"}   \* the offer, answer or candidate of a signalling message
Texts == {"hi"}

VARIABLES
  conn,            \* socket -> "none" | "open" | "closing" | "closed"
  participantId,   \* socket -> the connection's participantId
  currentRoom,     \* socket -> the connection's currentRoom
  rooms,           \* room -> Map in insertion order: sequence of [id, ws]
  drawingHistory,  \* sequence of strokes
  strokeCount,     \* draw_stroke messages accepted so far (gives strokes their id)
  accepted,        \* history variable: strokes accepted since the last clear
  sent,            \* deliveries of the last handler, in order: [to, msg]
  cl               \* client (by its socket) -> the state of its page

serverVars == <<conn, participantId, currentRoom, rooms, drawingHistory,
                strokeCount, accepted, sent>>
vars == <<conn, participantId, currentRoom, rooms, drawingHistory,
          strokeCount, accepted, sent, cl>>

\* ------------------------------------------------------------- Map helpers
MapHas(m, k) == \E i \in DOMAIN m : m[i].id = k
MapGet(m, k) == (CHOOSE i \in DOMAIN m : m[i].id = k)
MapSet(m, k, w) ==
  IF MapHas(m, k)
    THEN [i \in DOMAIN m |-> IF m[i].id = k THEN [id |-> k, ws |-> w] ELSE m[i]]
    ELSE Append(m, [id |-> k, ws |-> w])
MapDelete(m, k) == SelectSeq(m, LAMBDA e : e.id # k)
MapKeys(m) == [i \in DOMAIN m |-> m[i].id]
KeySet(m) == {m[i].id : i \in DOMAIN m}

RECURSIVE SeqOfSet(_)
SeqOfSet(S) ==
  IF S = {} THEN <<>>
  ELSE LET x == CHOOSE y \in S : \A z \in S : y <= z
       IN <<x>> \o SeqOfSet(S \ {x})

\* sockets whose readyState is OPEN (1)
OpenSockets == {s \in Sockets : conn[s] = "open"}

\* ------------------------------------------------------------ server code
\* the counts taken before the handler changed the maps
GetRoomCountsBefore(rs) == [r \in RoomIds |-> Len(rooms[r])]

GetRoomCounts(rs) == [r \in RoomIds |-> Len(rs[r])]

BroadcastToRoom(m, message, excludeWs, ready) ==
  LET sel == SelectSeq(m, LAMBDA e : e.ws # excludeWs /\ e.ws \in ready)
  IN [i \in DOMAIN sel |-> [to |-> sel[i].ws, msg |-> message]]

\* the message written to every open socket of the room
SendToParticipantAll(m, targetParticipantId, message, ready) ==
  BroadcastToRoom(m, message, 0, ready)

SendToParticipant(m, targetParticipantId, message, ready) ==
  IF MapHas(m, targetParticipantId)
     /\ m[MapGet(m, targetParticipantId)].ws \in ready
    THEN <<[to |-> m[MapGet(m, targetParticipantId)].ws, msg |-> message]>>
    ELSE <<>>

\* presence written only to the sockets recorded in some room
BroadcastPresenceToMembers(rs, ready) ==
  LET clients == SeqOfSet({w \in ready : \E r \in RoomIds : \E i \in DOMAIN rs[r] :
                                          rs[r][i].ws = w})
  IN [i \in DOMAIN clients |->
        [to |-> clients[i],
         msg |-> [type |-> "presence", counts |-> GetRoomCounts(rs)]]]

BroadcastPresence(rs, ready) ==
  LET clients == SeqOfSet(ready)
  IN [i \in DOMAIN clients |->
        [to |-> clients[i],
         msg |-> [type |-> "presence", counts |-> GetRoomCounts(rs)]]]

\* a unicast that is never written to the socket
SendDropped(ws, message) == <<>>

Send(ws, message) == <<[to |-> ws, msg |-> message]>>

\* ----------------------------------------------------- client: data model
\* The page of client c talks through socket c under participant ID PidOf(c).
PidOf(c) == IF c = 1 THEN "a" ELSE "b"

NoPc == 0                \* peersRef.current[peerId] undefined
NoPeers == [p \in Pids |-> NoPc]

\* A page that has not entered the video room: refs as useRef() creates them.
\*   stream        localStreamRef.current is a MediaStream
\*   camera        getUserMedia: "idle" | "pending" | "ready"
\*   handlers      the room's handlers are in handlersRef
\*   peers         peersRef.current: peer ID -> index into pcs (NoPc: none)
\*   pcs           every RTCPeerConnection created: [peer, sig, remote, state,
\*                 ice]; sig is its signalingState, remote the connection
\*                 whose description it holds as remote description (<<>>:
\*                 none), state its connectionState, ice its
\*                 iceConnectionState
\*   timers        the live timer of reconnectTimeoutsRef.current per peer:
\*                 "none", or the connectionState that armed it
\*   pendingUsers  pendingUsersRef.current
\*   pendingOffers pendingOffersRef.current: [fromId, offer]
\*   tasks         awaits not yet settled: [kind, peer, pc, arg, ok]
\*   deferred      the setTimeout(..., 100) callbacks of handleMessage for
\*                 user_left not yet run, oldest first: [peer, overtaken,
\*                 had]; had is the number of connections the page had
\*                 created when the user_left was received
\*   grace         per peer, the setTimeout(..., 5000) callbacks of onUserLeft
\*                 not yet run
\*   graceOf       per peer, the had of the user_left behind each of those
\*                 callbacks, oldest first
\*   inbox/outbox  messages on the socket, to and from the page
\*   ws            wsRef.current: the socket of the client (0: none yet)
\*   up            that socket is OPEN as the client sees it
\*   retry         connect() is due: at mount, or by the timer of ws.onclose
\*   roomRef       currentRoomRef.current
\*   roomUsers     the roomUsers state
\*   armedFor      per peer, the connection whose state change set the live
\*                 timer of timers
\*   drops, moves, rejoined, closedIn: history of the run, for the claims
\*   queued, answers, offers, blind, handled, recovered, seen, ignored,
\*   visits, replaced, leftEarly: history of the run, for the claims
\*   noted         what the last message handled came to: <<tag, peer>>
FreshClient ==
  [mounted |-> FALSE, camera |-> "idle", stream |-> FALSE, handlers |-> FALSE,
   peers |-> NoPeers, pcs |-> <<>>, pendingUsers |-> <<>>, pendingOffers |-> <<>>,
   tasks |-> {}, inbox |-> <<>>, outbox |-> <<>>,
   timers |-> [p \in Pids |-> "none"], armedFor |-> [p \in Pids |-> NoPc],
   deferred |-> <<>>, grace |-> [p \in Pids |-> 0], graceOf |-> [p \in Pids |-> <<>>],
   visits |-> 0, replaced |-> {}, leftEarly |-> FALSE, noted |-> {},
   queued |-> {}, answers |-> <<>>, offers |-> <<>>, blind |-> {}, handled |-> {}, recovered |-> {},
   seen |-> {}, ignored |-> FALSE,
   ws |-> 0, up |-> FALSE, retry |-> FALSE, roomRef |-> NoRoom, roomUsers |-> <<>>,
   drops |-> 0, moves |-> 0, rejoined |-> {}, closedIn |-> NoRoom]

Task(kind, peer, pc, arg, ok) ==
  [kind |-> kind, peer |-> peer, pc |-> pc, arg |-> arg, ok |-> ok]

\* sendRtcSignal / ws.send: the socket of the page is open in these runs
SendSignal(st, message) == [st EXCEPT !.outbox = Append(@, message)]

\* pc.close()
ClosePc(st, id) ==
  [st EXCEPT !.pcs[id].sig = "closed", !.pcs[id].state = "closed",
             !.pcs[id].ice = "closed"]

\* the handling of the message came to tag for peerId
Note(st, tag, peerId) == [st EXCEPT !.noted = @ \cup {<<tag, peerId>>}]

\* clearTimeout(reconnectTimeoutsRef.current[peerId]) left out
ClearRecoveryTimerSkipped(st, peerId) == st

\* clearTimeout(reconnectTimeoutsRef.current[peerId]); delete the entry
ClearRecoveryTimer(st, peerId) ==
  [st EXCEPT !.timers[peerId] = "none", !.armedFor[peerId] = NoPc]

\* the timer of the peer is cleared and a new one set; armedBy is the
\* connectionState its callback compares with
ArmRecoveryTimer(st, peerId, armedBy) ==
  [st EXCEPT !.timers[peerId] = armedBy, !.armedFor[peerId] = st.peers[peerId]]

\* removePeer(peerId)
RemovePeer(st, peerId) ==
  IF st.peers[peerId] # NoPc
    THEN [ClosePc(ClearRecoveryTimer(st, peerId), st.peers[peerId])
            EXCEPT !.peers[peerId] = NoPc]
    ELSE st

\* createPeerConnection(peerId, stream): the existing connection, or a new one
\* in signalingState "stable" stored in peersRef
CreatePeerConnection(st, peerId) ==
  IF st.peers[peerId] # NoPc
    THEN st
    ELSE [st EXCEPT !.pcs = Append(@, [peer |-> peerId, sig |-> "stable", remote |-> <<>>,
                                         state |-> "new", ice |-> "new"]),
                    !.peers[peerId] = Len(st.pcs) + 1]

\* connectToPeer without its test of peersRef: an offer is made on whatever
\* connection createPeerConnection returns
ConnectToPeerStartAgain(st, peerId) ==
  LET st1 == CreatePeerConnection(st, peerId)
  IN [st1 EXCEPT !.tasks = @ \cup {Task("offer", peerId, st1.peers[peerId], <<>>, TRUE)}]

\* connectToPeer up to its first await (createOffer)
ConnectToPeerStart(st, peerId) ==
  IF st.peers[peerId] # NoPc
    THEN Note(st, "skipped", peerId)
    ELSE LET st1 == CreatePeerConnection(st, peerId)
         IN [st1 EXCEPT !.tasks = @ \cup {Task("offer", peerId, st1.peers[peerId], <<>>, TRUE)}]

\* handleOffer that answers on the connection it finds
HandleOfferStartKeeping(st, fromId, offer) ==
  LET st0 == [st EXCEPT !.handled = @ \cup {fromId}]
      st2 == CreatePeerConnection(st0, fromId)
  IN [st2 EXCEPT !.tasks = @ \cup {Task("answer", fromId, st2.peers[fromId], offer, TRUE)}]

\* handleOffer up to its first await (setRemoteDescription): an existing
\* connection to the sender is closed and dropped from peersRef first
HandleOfferStart(st, fromId, offer) ==
  LET st0 == [st EXCEPT !.handled = @ \cup {fromId},
                        !.replaced = IF st.peers[fromId] # NoPc
                                       THEN @ \cup {[offer |-> offer, old |-> st.peers[fromId],
                                                     fresh |-> Len(st.pcs) + 1,
                                                     pending |-> \E t \in st.tasks :
                                                                   /\ t.kind = "offer"
                                                                   /\ t.pc = st.peers[fromId]]}
                                       ELSE @]
      st1 == IF st0.peers[fromId] # NoPc
               THEN [ClosePc(st0, st0.peers[fromId]) EXCEPT !.peers[fromId] = NoPc]
               ELSE st0
      st2 == CreatePeerConnection(st1, fromId)
  IN [st2 EXCEPT !.tasks = @ \cup {Task("answer", fromId, st2.peers[fromId], offer, TRUE)}]

\* handleAnswer that makes a connection for the answer when there is none
HandleAnswerStartBlind(st, fromId, answer) ==
  LET st1 == CreatePeerConnection(st, fromId)
  IN [st1 EXCEPT !.tasks = @ \cup
        {Task("apply", fromId, st1.peers[fromId], answer,
              st1.pcs[st1.peers[fromId]].sig = "have-local-offer")}]

\* handleAnswer up to its await: setRemoteDescription(answer) is valid only in
\* signalingState "have-local-offer"
HandleAnswerStart(st, fromId, answer) ==
  IF st.peers[fromId] # NoPc
    THEN [st EXCEPT !.tasks = @ \cup
            {Task("apply", fromId, st.peers[fromId], answer,
                  st.pcs[st.peers[fromId]].sig = "have-local-offer")}]
    ELSE Note(st, "unanswered", fromId)

\* handleIceCandidate: addIceCandidate changes nothing the page holds
HandleIceCandidate(st, fromId, candidate) ==
  IF st.peers[fromId] # NoPc
    THEN Note(st, "candidate", fromId)
    ELSE Note(st, "uncandidated", fromId)

RECURSIVE ConnectEach(_, _)
ConnectEach(st, users) ==
  IF users = <<>> THEN st
  ELSE ConnectEach(ConnectToPeerStart(st, Head(users)), Tail(users))

RECURSIVE OfferEach(_, _)
OfferEach(st, offers) ==
  IF offers = <<>> THEN st
  ELSE OfferEach(HandleOfferStart(st, Head(offers).fromId, Head(offers).offer),
                 Tail(offers))

\* useEffect(..., [connectToPeer]): processes the pending users if the stream
\* is ready
PendingUsersEffect(st) ==
  IF st.stream /\ Len(st.pendingUsers) > 0
    THEN ConnectEach([st EXCEPT !.pendingUsers = <<>>], st.pendingUsers)
    ELSE st

\* useEffect(..., [handleOffer]): processes the pending offers if the stream
\* is ready
PendingOffersEffect(st) ==
  IF st.stream /\ Len(st.pendingOffers) > 0
    THEN OfferEach([st EXCEPT !.pendingOffers = <<>>], st.pendingOffers)
    ELSE st

\* onRoomUsers(users)
RECURSIVE OnRoomUsers(_, _, _)
OnRoomUsers(st, self, users) ==
  IF users = <<>> THEN st
  ELSE LET userId == Head(users)
           st1 == IF userId = self THEN st
                  ELSE IF st.peers[userId] # NoPc THEN Note(st, "skipped", userId)
                  ELSE IF st.stream THEN ConnectToPeerStart(st, userId)
                  ELSE IF \E i \in DOMAIN st.pendingUsers : st.pendingUsers[i] = userId
                         THEN st
                         ELSE [st EXCEPT !.pendingUsers = Append(@, userId)]
       IN OnRoomUsers(st1, self, Tail(users))

\* onUserJoined(userId)
OnUserJoined(st, userId) ==
  IF st.stream THEN ConnectToPeerStart(st, userId)
               ELSE [st EXCEPT !.pendingUsers = Append(@, userId)]

\* onRtcOffer(fromId, offer)
OnRtcOffer(st, fromId, offer) ==
  IF st.stream THEN HandleOfferStart(st, fromId, offer)
               ELSE [st EXCEPT !.pendingOffers = Append(@, [fromId |-> fromId, offer |-> offer]),
                               !.queued = @ \cup {offer}]

\* the connection is still being set up, as onUserLeft judges it
EarlyState(pc) ==
  \/ pc.state \in {"connecting", "new"}
  \/ pc.ice \in {"checking", "new"}

\* onUserLeft that removes the peer whatever the state of its connection
OnUserLeftAtOnce(st, userId) ==
  IF st.peers[userId] # NoPc THEN RemovePeer(st, userId) ELSE st

\* onUserLeft(userId)
OnUserLeft(st, userId) ==
  IF st.peers[userId] # NoPc
    THEN IF EarlyState(st.pcs[st.peers[userId]])
           THEN Note([st EXCEPT !.grace[userId] = @ + 1], "delayed", userId)
           ELSE Note(RemovePeer(st, userId), "removed", userId)
    ELSE Note(st, "absent", userId)

\* the callback of onUserLeft's setTimeout(..., 5000)
OnGraceTimeout(st, userId) ==
  IF st.peers[userId] # NoPc THEN Note(RemovePeer(st, userId), "expired", userId)
                             ELSE st

\* stopCamera that leaves the pending queues as they are
StopCameraKeepingQueues(st) ==
  LET RECURSIVE CloseAll(_, _)
      CloseAll(s, ps) ==
        IF ps = {} THEN s
        ELSE LET q == CHOOSE x \in ps : TRUE
             IN CloseAll(IF s.peers[q] # NoPc THEN ClosePc(s, s.peers[q]) ELSE s,
                         ps \ {q})
  IN [CloseAll(st, Pids) EXCEPT !.peers = NoPeers, !.stream = FALSE]

\* stopCamera(): every connection of peersRef is closed, peersRef and both
\* pending queues are emptied, the tracks are stopped and localStreamRef
\* reset; reconnectTimeoutsRef is not touched
StopCamera(st) ==
  [StopCameraKeepingQueues(st) EXCEPT !.pendingUsers = <<>>, !.pendingOffers = <<>>]

\* a user_joined or rtc_offer of peerId is handled while the callback of an
\* earlier user_left of peerId has not run
Overtake(st, peerId) ==
  [st EXCEPT !.deferred =
     [i \in DOMAIN @ |-> IF @[i].peer = peerId THEN [@[i] EXCEPT !.overtaken = TRUE]
                                               ELSE @[i]]]

\* case "user_left": onUserLeft is called from setTimeout(..., 100)
DeferUserLeft(st, userId) ==
  [st EXCEPT !.deferred = Append(@, [peer |-> userId, overtaken |-> FALSE,
                                     had |-> Len(st.pcs)])]

\* handleMessage(data): presence only sets presenceCounts
HandleMessage(st, self, data) ==
  IF ~st.handlers THEN st
  ELSE CASE data.type = "room_users" -> OnRoomUsers(st, self, data.users)
         [] data.type = "user_joined" ->
              OnUserJoined(Overtake(st, data.participantId), data.participantId)
         [] data.type = "user_left" -> DeferUserLeft(st, data.participantId)
         [] data.type = "rtc_offer" ->
              OnRtcOffer(Overtake(st, data.fromId), data.fromId, data.payload)
         [] data.type = "rtc_answer" -> HandleAnswerStart(st, data.fromId, data.payload)
         [] data.type = "rtc_ice_candidate" ->
              HandleIceCandidate(st, data.fromId, data.payload)
         [] OTHER -> st

\* pc.oniceconnectionstatechange: restartIce on failed and disconnected changes
\* nothing the page holds; connected and completed clear the timer
OnIceConnectionStateChange(st, peerId, iceState) ==
  IF iceState \in {"connected", "completed"} THEN ClearRecoveryTimer(st, peerId) ELSE st

\* pc.onconnectionstatechange
OnConnectionStateChange(st, peerId, state) ==
  CASE state = "closed" -> RemovePeer(st, peerId)
    [] state = "failed" -> ArmRecoveryTimer(st, peerId, "failed")
    [] state = "disconnected" -> ArmRecoveryTimer(st, peerId, "disconnected")
    [] state = "connected" -> ClearRecoveryTimer(st, peerId)
    [] OTHER -> st

\* the callback of a recovery timer without its test of connectionState
OnRecoveryTimeoutAnyState(st, peerId, armedBy) == RemovePeer(st, peerId)

\* the callback of a recovery timer: the connection peersRef holds for the peer
\* is removed if its connectionState is the one that armed the timer
OnRecoveryTimeout(st, peerId, armedBy) ==
  IF st.peers[peerId] # NoPc /\ st.pcs[st.peers[peerId]].state = armedBy
    THEN RemovePeer(st, peerId)
    ELSE st

\* ------------------------------------------------- server: the connection
Init ==
  /\ cl = [c \in Sockets |-> FreshClient]
  /\ conn = [s \in Sockets |-> "none"]
  /\ participantId = [s \in Sockets |-> NoPid]
  /\ currentRoom = [s \in Sockets |-> NoRoom]
  /\ rooms = [r \in RoomIds |-> <<>>]
  /\ drawingHistory = <<>>
  /\ strokeCount = 0
  /\ accepted = <<>>
  /\ sent = <<>>

\* wss.on("connection")
Connect(s) ==
  /\ conn[s] = "none"
  /\ conn' = [conn EXCEPT ![s] = "open"]
  /\ sent' = Send(s, [type |-> "presence", counts |-> GetRoomCounts(rooms)])
  /\ UNCHANGED <<participantId, currentRoom, rooms, drawingHistory,
                 strokeCount, accepted>>

\* the previous room is left without asking whether the participant is in it
LeavesPreviousUnchecked(s, p, r) ==
  /\ currentRoom[s] # NoRoom
  /\ currentRoom[s] # r

LeavesPrevious(s, p, r) ==
  /\ currentRoom[s] # NoRoom
  /\ currentRoom[s] # r
  /\ MapHas(rooms[currentRoom[s]], p)

WasAlreadyInRoomUnchecked(s, p, r) == FALSE

WasAlreadyInRoom(s, p, r) == currentRoom[s] = r /\ MapHas(rooms[r], p)

UsersInRoom(m, p) == SelectSeq(MapKeys(m), LAMBDA id : id # p)

\* case "join"
Join(s, p, r) ==
  LET cur == currentRoom[s]
      rooms1 == IF LeavesPrevious(s, p, r)
                  THEN [rooms EXCEPT ![cur] = MapDelete(@, p)]
                  ELSE rooms
      out1 == IF LeavesPrevious(s, p, r)
                THEN BroadcastToRoom(rooms1[cur],
                       [type |-> "user_left", participantId |-> p, roomId |-> cur],
                       0, OpenSockets)
                ELSE <<>>
      known == r \in RoomIds
      was == known /\ WasAlreadyInRoom(s, p, r)
      rooms2 == IF known THEN [rooms1 EXCEPT ![r] = MapSet(@, p, s)] ELSE rooms1
      out2 == IF known /\ ~was
                THEN BroadcastToRoom(rooms2[r],
                       [type |-> "user_joined", participantId |-> p, roomId |-> r],
                       s, OpenSockets)
                ELSE <<>>
      out3 == IF known
                THEN Send(s, [type |-> "room_users", roomId |-> r,
                              users |-> UsersInRoom(rooms2[r], p)])
                ELSE <<>>
      out4 == IF known /\ r = DrawRoom /\ Len(drawingHistory) > 0
                THEN Send(s, [type |-> "drawing_history", strokes |-> drawingHistory])
                ELSE <<>>
  IN /\ conn[s] = "open"
     /\ participantId' = [participantId EXCEPT ![s] = p]
     /\ currentRoom' = IF known THEN [currentRoom EXCEPT ![s] = r] ELSE currentRoom
     /\ rooms' = rooms2
     /\ sent' = out1 \o out2 \o out3 \o out4 \o BroadcastPresence(rooms2, OpenSockets)
     /\ UNCHANGED <<conn, drawingHistory, strokeCount, accepted>>

\* the body shared by case "leave" and ws.on("close"): readyState of the
\* closing socket is no longer OPEN when its close event is handled
Departs(s) == currentRoom[s] # NoRoom /\ participantId[s] # NoPid

DepartRooms(s) ==
  IF Departs(s)
    THEN [rooms EXCEPT ![currentRoom[s]] = MapDelete(@, participantId[s])]
    ELSE rooms

DepartOut(s, ready) ==
  IF Departs(s)
    THEN BroadcastToRoom(DepartRooms(s)[currentRoom[s]],
           [type |-> "user_left", participantId |-> participantId[s],
            roomId |-> currentRoom[s]], 0, ready)
         \o BroadcastPresence(DepartRooms(s), ready)
    ELSE <<>>

\* case "leave"
Leave(s) ==
  /\ conn[s] = "open"
  /\ rooms' = DepartRooms(s)
  /\ sent' = DepartOut(s, OpenSockets)
  /\ currentRoom' = IF Departs(s) THEN [currentRoom EXCEPT ![s] = NoRoom]
                                  ELSE currentRoom
  /\ UNCHANGED <<conn, participantId, drawingHistory, strokeCount, accepted>>

\* the transport of s stops being OPEN; its close event is not yet handled
SocketClosing(s) ==
  /\ conn[s] = "open"
  /\ conn' = [conn EXCEPT ![s] = "closing"]
  /\ sent' = <<>>
  /\ UNCHANGED <<participantId, currentRoom, rooms, drawingHistory,
                 strokeCount, accepted>>

\* ws.on("close")
Close(s) ==
  /\ conn[s] \in {"open", "closing"}
  /\ conn' = [conn EXCEPT ![s] = "closed"]
  /\ rooms' = DepartRooms(s)
  /\ sent' = DepartOut(s, OpenSockets \ {s})
  /\ UNCHANGED <<participantId, currentRoom, drawingHistory, strokeCount, accepted>>

\* case "rtc_offer" / "rtc_answer" / "rtc_ice_candidate"
RtcRelay(s, kind, targetId, payload) ==
  /\ conn[s] = "open"
  /\ sent' = IF currentRoom[s] # NoRoom /\ participantId[s] # NoPid /\ targetId # NoPid
               THEN SendToParticipant(rooms[currentRoom[s]], targetId,
                      [type |-> kind, fromId |-> participantId[s], payload |-> payload],
                      OpenSockets)
               ELSE <<>>
  /\ UNCHANGED <<conn, participantId, currentRoom, rooms, drawingHistory,
                 strokeCount, accepted>>

\* case "message": the broadcast excludes the sender's socket
MessageOutAll(s, messageId, text) ==
  BroadcastToRoom(rooms[TalkRoom],
    [type |-> "message", participantId |-> participantId[s],
     messageId |-> messageId, text |-> text], 0, OpenSockets)

MessageOut(s, messageId, text) ==
  BroadcastToRoom(rooms[TalkRoom],
    [type |-> "message", participantId |-> participantId[s],
     messageId |-> messageId, text |-> text], s, OpenSockets)

MessageAccepted(s) == currentRoom[s] = TalkRoom /\ participantId[s] # NoPid

Message(s, messageId, text) ==
  /\ conn[s] = "open"
  /\ sent' = IF MessageAccepted(s) THEN MessageOut(s, messageId, text) ELSE <<>>
  /\ UNCHANGED <<conn, participantId, currentRoom, rooms, drawingHistory,
                 strokeCount, accepted>>

\* drawingHistory.push(stroke); slice(-MAX_DRAWING_HISTORY) past the capacity
PushStrokeKeepOldest(h, stroke) ==
  LET pushed == Append(h, stroke)
  IN IF Len(pushed) > MAX_DRAWING_HISTORY
       THEN SubSeq(pushed, 1, MAX_DRAWING_HISTORY)
       ELSE pushed

PushStroke(h, stroke) ==
  LET pushed == Append(h, stroke)
  IN IF Len(pushed) > MAX_DRAWING_HISTORY
       THEN SubSeq(pushed, Len(pushed) - MAX_DRAWING_HISTORY + 1, Len(pushed))
       ELSE pushed

DrawAccepted(s) == currentRoom[s] = DrawRoom /\ participantId[s] # NoPid

\* the stroke built from the message; its id numbers the accepted strokes
NewStroke(s) == [id |-> strokeCount + 1, participantId |-> participantId[s]]

\* the broadcast of a stroke includes the sender's socket (excludeWs = null)
DrawStrokeOutOthers(s, stroke) ==
  BroadcastToRoom(rooms[DrawRoom], [type |-> "draw_stroke", stroke |-> stroke],
                  s, OpenSockets)

DrawStrokeOut(s, stroke) ==
  BroadcastToRoom(rooms[DrawRoom], [type |-> "draw_stroke", stroke |-> stroke],
                  0, OpenSockets)

\* case "draw_stroke"
DrawStroke(s) ==
  /\ conn[s] = "open"
  /\ drawingHistory' = IF DrawAccepted(s) THEN PushStroke(drawingHistory, NewStroke(s))
                                          ELSE drawingHistory
  /\ sent' = IF DrawAccepted(s) THEN DrawStrokeOut(s, NewStroke(s)) ELSE <<>>
  /\ strokeCount' = IF DrawAccepted(s) THEN strokeCount + 1 ELSE strokeCount
  /\ accepted' = IF DrawAccepted(s) THEN Append(accepted, NewStroke(s)) ELSE accepted
  /\ UNCHANGED <<conn, participantId, currentRoom, rooms>>

\* drawingHistory = []
ClearedHistoryKept(h) == h

ClearedHistory(h) == <<>>

\* case "clear_drawing"
ClearDrawing(s) ==
  /\ conn[s] = "open"
  /\ drawingHistory' = IF currentRoom[s] = DrawRoom THEN ClearedHistory(drawingHistory)
                                                    ELSE drawingHistory
  /\ accepted' = IF currentRoom[s] = DrawRoom THEN <<>> ELSE accepted
  /\ sent' = IF currentRoom[s] = DrawRoom
               THEN BroadcastToRoom(rooms[DrawRoom],
                      [type |-> "clear_drawing", participantId |-> participantId[s]],
                      0, OpenSockets)
               ELSE <<>>
  /\ UNCHANGED <<conn, participantId, currentRoom, rooms, strokeCount>>

\* The relay's membership and Talk-room traffic.
Next ==
  \/ \E s \in Sockets : Connect(s) /\ UNCHANGED cl
  \/ \E s \in Sockets, p \in Pids, r \in JoinRoomIds : Join(s, p, r) /\ UNCHANGED cl
  \/ \E s \in Sockets : Leave(s) /\ UNCHANGED cl
  \/ \E s \in Sockets : SocketClosing(s) /\ UNCHANGED cl
  \/ \E s \in Sockets : Close(s) /\ UNCHANGED cl
  \/ \E s \in Sockets, m \in MsgIds, t \in Texts : Message(s, m, t) /\ UNCHANGED cl
  \/ \E s \in Sockets, k \in RtcKinds, t \in Pids \cup {NoPid}, y \in Payloads :
       RtcRelay(s, k, t, y) /\ UNCHANGED cl

Spec == Init /\ [][Next]_vars

\* The relay's drawing room: membership of rooms 3 and 4, strokes and clears.
NextDraw ==
  \/ \E s \in Sockets : Connect(s) /\ UNCHANGED cl
  \/ \E s \in Sockets, p \in Pids, r \in {TalkRoom, DrawRoom} : Join(s, p, r) /\ UNCHANGED cl
  \/ \E s \in Sockets : Leave(s) /\ UNCHANGED cl
  \/ \E s \in Sockets : SocketClosing(s) /\ UNCHANGED cl
  \/ \E s \in Sockets : Close(s) /\ UNCHANGED cl
  \/ \E s \in Sockets : strokeCount < MaxStrokes /\ DrawStroke(s) /\ UNCHANGED cl
  \/ \E s \in Sockets : ClearDrawing(s) /\ UNCHANGED cl

SpecDraw == Init /\ [][NextDraw]_vars

\* One member of the drawing room drawing past the capacity of the history.
InitHistory ==
  /\ cl = [c \in Sockets |-> FreshClient]
  /\ conn = [s \in Sockets |-> IF s = 1 THEN "open" ELSE "none"]
  /\ participantId = [s \in Sockets |-> IF s = 1 THEN "a" ELSE NoPid]
  /\ currentRoom = [s \in Sockets |-> IF s = 1 THEN DrawRoom ELSE NoRoom]
  /\ rooms = [r \in RoomIds |-> IF r = DrawRoom THEN <<[id |-> "a", ws |-> 1]>> ELSE <<>>]
  /\ drawingHistory = <<>>
  /\ strokeCount = 0
  /\ accepted = <<>>
  /\ sent = <<>>

NextHistory ==
  \/ \E s \in Sockets : strokeCount < MaxHistoryStrokes /\ DrawStroke(s) /\ UNCHANGED cl
  \/ \E s \in Sockets : ClearDrawing(s) /\ UNCHANGED cl

SpecHistory == InitHistory /\ [][NextHistory]_vars

\* ---------------------------------------------------- the video room, live
\* Two pages enter the video room over the relay; the camera of each becomes
\* available (or is denied) at any moment after its page has mounted.

JoinMessage(c) == [type |-> "join", roomId |-> VideoRoom, participantId |-> PidOf(c)]

\* ws.onmessage of every page the handler wrote to, in the order written
Arrived(out, c) ==
  LET sel == SelectSeq(out, LAMBDA d : d.to = c)
  IN [i \in DOMAIN sel |-> sel[i].msg]

Deliver(cs, out) ==
  [c \in Sockets |-> [cs[c] EXCEPT !.inbox = @ \o Arrived(out, c)]]

\* handleEnterRoom (App.jsx) sends join; Room1VideoOnly mounts: its effects run
\* in order (pending users, pending offers, registerHandlers, startCamera up to
\* getUserMedia), then the effect of App sends join once more
EnterRoom(c) ==
  /\ conn[c] = "open"
  /\ ~cl[c].mounted
  /\ LET st1 == SendSignal(cl[c], JoinMessage(c))
         st2 == PendingOffersEffect(PendingUsersEffect([st1 EXCEPT !.mounted = TRUE]))
         st3 == [st2 EXCEPT !.handlers = TRUE, !.camera = "pending"]
     IN cl' = [cl EXCEPT ![c] = [SendSignal(st3, JoinMessage(c)) EXCEPT !.visits = @ + 1]]
  /\ UNCHANGED serverVars

\* startCamera after getUserMedia resolved: the stream is stored; the render
\* that setLocalStream causes leaves connectToPeer and handleOffer the same
\* functions, so the effects that depend on them do not run again
CameraReady(c) ==
  /\ cl[c].camera = "pending"
  /\ cl' = [cl EXCEPT ![c].camera = "ready", ![c].stream = TRUE]
  /\ UNCHANGED serverVars

\* startCamera after getUserMedia rejected
CameraDenied(c) ==
  /\ cl[c].camera = "pending"
  /\ cl' = [cl EXCEPT ![c].camera = "denied"]
  /\ UNCHANGED serverVars

\* the relay handles the next message of socket c: a join
ServerJoin(c) ==
  /\ cl[c].outbox # <<>>
  /\ Head(cl[c].outbox).type = "join"
  /\ Join(c, Head(cl[c].outbox).participantId, Head(cl[c].outbox).roomId)
  /\ cl' = Deliver([cl EXCEPT ![c].outbox = Tail(@)], sent')

\* the relay handles the next message of socket c: an rtc_offer or rtc_answer
ServerRelay(c) ==
  /\ cl[c].outbox # <<>>
  /\ Head(cl[c].outbox).type \in {"rtc_offer", "rtc_answer"}
  /\ RtcRelay(c, Head(cl[c].outbox).type, Head(cl[c].outbox).targetId,
              Head(cl[c].outbox).payload)
  /\ cl' = Deliver([cl EXCEPT ![c].outbox = Tail(@)], sent')

\* ws.onmessage of page c
Receive(c) ==
  /\ cl[c].inbox # <<>>
  /\ cl' = [cl EXCEPT ![c] = HandleMessage([cl[c] EXCEPT !.inbox = Tail(@), !.noted = {}],
                                           PidOf(c), Head(cl[c].inbox))]
  /\ UNCHANGED serverVars

\* connectToPeer after createOffer and setLocalDescription resolved
ContinueConnectToPeer(c, t) ==
  /\ t \in cl[c].tasks /\ t.kind = "offer"
  /\ cl[c].pcs[t.pc].sig # "closed"
  /\ LET st == cl[c]
         st1 == [st EXCEPT !.tasks = @ \ {t},
                           !.pcs[t.pc].sig = "have-local-offer",
                           !.offers = Append(@, [to |-> t.peer, pc |-> t.pc]),
                           !.blind = IF t.peer \in st.handled THEN @ ELSE @ \cup {t.peer}]
     IN cl' = [cl EXCEPT ![c] =
                 SendSignal(st1, [type |-> "rtc_offer", targetId |-> t.peer,
                                  payload |-> <<c, t.pc>>])]
  /\ UNCHANGED serverVars

\* handleOffer after setRemoteDescription, createAnswer and setLocalDescription
\* resolved
ContinueHandleOffer(c, t) ==
  /\ t \in cl[c].tasks /\ t.kind = "answer"
  /\ cl[c].pcs[t.pc].sig # "closed"
  /\ LET st == cl[c]
         st1 == [st EXCEPT !.tasks = @ \ {t},
                           !.pcs[t.pc].remote = t.arg,
                           !.answers = Append(@, [to |-> t.peer, re |-> t.arg])]
     IN cl' = [cl EXCEPT ![c] =
                 SendSignal(st1, [type |-> "rtc_answer", targetId |-> t.peer,
                                  payload |-> [pc |-> <<c, t.pc>>, re |-> t.arg]])]
  /\ UNCHANGED serverVars

\* handleAnswer after setRemoteDescription settled: resolved, or rejected with
\* InvalidStateError, on which the catch removes the peer
ContinueHandleAnswer(c, t) ==
  /\ t \in cl[c].tasks /\ t.kind = "apply"
  /\ cl[c].pcs[t.pc].sig # "closed"
  /\ LET st == [cl[c] EXCEPT !.tasks = @ \ {t}]
     IN cl' = [cl EXCEPT ![c] =
                 IF t.ok
                   THEN [st EXCEPT !.pcs[t.pc].sig = "stable",
                                   !.pcs[t.pc].remote = t.arg.pc]
                   ELSE RemovePeer(st, t.peer)]
  /\ UNCHANGED serverVars

\* an await on a connection that was closed meanwhile rejects: each catch
\* removes whatever connection peersRef now holds for the peer
RejectOnClosed(c, t) ==
  /\ t \in cl[c].tasks
  /\ cl[c].pcs[t.pc].sig = "closed"
  /\ cl' = [cl EXCEPT ![c] = RemovePeer([cl[c] EXCEPT !.tasks = @ \ {t}], t.peer)]
  /\ UNCHANGED serverVars

\* an await on a connection that was closed meanwhile never settles
AbandonOnClosed(c, t) ==
  /\ t \in cl[c].tasks
  /\ cl[c].pcs[t.pc].sig = "closed"
  /\ cl' = [cl EXCEPT ![c].tasks = @ \ {t}]
  /\ UNCHANGED serverVars

NextRtc ==
  \/ \E s \in Sockets : Connect(s) /\ cl' = Deliver(cl, sent')
  \/ \E c \in Sockets : EnterRoom(c)
  \/ \E c \in Sockets : CameraReady(c)
  \/ \E c \in Sockets : CameraDenied(c)
  \/ \E c \in Sockets : ServerJoin(c)
  \/ \E c \in Sockets : ServerRelay(c)
  \/ \E c \in Sockets : Receive(c)
  \/ \E c \in Sockets : \E t \in cl[c].tasks : ContinueConnectToPeer(c, t)
  \/ \E c \in Sockets : \E t \in cl[c].tasks : ContinueHandleOffer(c, t)
  \/ \E c \in Sockets : \E t \in cl[c].tasks : ContinueHandleAnswer(c, t)
  \/ \E c \in Sockets : \E t \in cl[c].tasks : RejectOnClosed(c, t)
  \/ \E c \in Sockets : \E t \in cl[c].tasks : AbandonOnClosed(c, t)

SpecRtc == Init /\ [][NextRtc]_vars

\* ------------------------------------------- the video room, established
\* Two pages of the video room completed the handshake of a connection to each
\* other; the transport of each reports its state, and the recovery timers
\* fire at any moment after they were armed.
EstablishedClient(c) ==
  [FreshClient EXCEPT
     !.mounted = TRUE, !.camera = "ready", !.stream = TRUE, !.handlers = TRUE,
     !.peers = [p \in Pids |-> IF p = PidOf(3 - c) THEN 1 ELSE NoPc],
     !.pcs = <<[peer |-> PidOf(3 - c), sig |-> "stable", remote |-> <<3 - c, 1>>,
                state |-> "connecting", ice |-> "checking"]>>]

InitLink ==
  /\ cl = [c \in Sockets |-> EstablishedClient(c)]
  /\ conn = [s \in Sockets |-> "open"]
  /\ participantId = [s \in Sockets |-> PidOf(s)]
  /\ currentRoom = [s \in Sockets |-> VideoRoom]
  /\ rooms = [r \in RoomIds |->
                IF r = VideoRoom THEN <<[id |-> "a", ws |-> 1], [id |-> "b", ws |-> 2]>>
                                 ELSE <<>>]
  /\ drawingHistory = <<>>
  /\ strokeCount = 0
  /\ accepted = <<>>
  /\ sent = <<>>

\* the connectionState a transport can report next
NextStates(state) ==
  CASE state = "new" -> {"connecting"}
    [] state = "connecting" -> {"connected", "disconnected", "failed"}
    [] state = "connected" -> {"disconnected", "failed", "connecting"}
    [] state = "disconnected" -> {"connected", "failed", "connecting"}
    [] state = "failed" -> {"connected"}
    [] OTHER -> {}

\* the iceConnectionState a connection can have in a connectionState: the
\* connectionState also follows the DTLS transport
IceStates(state) ==
  CASE state = "connecting" -> {"checking", "connected"}
    [] state = "connected" -> {"connected", "completed"}
    [] state = "disconnected" -> {"disconnected"}
    [] state = "failed" -> {"failed", "connected"}
    [] OTHER -> {}

\* the transport of the connection to peer p reports a state: the browser
\* fires iceconnectionstatechange if that state changed, then
\* connectionstatechange
TransportReports(c, p, state) ==
  /\ cl[c].peers[p] # NoPc
  /\ state \in NextStates(cl[c].pcs[cl[c].peers[p]].state)
  /\ \E iceState \in IceStates(state) :
       LET pc == cl[c].peers[p]
           st == [cl[c] EXCEPT
                    !.pcs[pc].state = state,
                    !.pcs[pc].ice = iceState,
                    !.recovered = IF state = "connected" /\ cl[c].timers[p] # "none"
                                    THEN @ \cup {p} ELSE @]
           st1 == IF iceState # cl[c].pcs[pc].ice
                    THEN OnIceConnectionStateChange(st, p, iceState)
                    ELSE st
       IN cl' = [cl EXCEPT ![c] = OnConnectionStateChange(st1, p, state)]
  /\ UNCHANGED serverVars

\* the recovery timer of peer p fires
RecoveryTimerFires(c, p) ==
  /\ cl[c].timers[p] # "none"
  /\ cl' = [cl EXCEPT ![c] =
              OnRecoveryTimeout(
                [cl[c] EXCEPT !.timers[p] = "none", !.armedFor[p] = NoPc,
                              !.noted = IF cl[c].armedFor[p] # cl[c].peers[p]
                                          THEN {<<"stale timer", p>>} ELSE @],
                p, cl[c].timers[p])]
  /\ UNCHANGED serverVars

NextLink ==
  \/ \E c \in Sockets, p \in Pids : TransportReports(c, p, "failed")
  \/ \E c \in Sockets, p \in Pids : TransportReports(c, p, "disconnected")
  \/ \E c \in Sockets, p \in Pids : TransportReports(c, p, "connecting")
  \/ \E c \in Sockets, p \in Pids : TransportReports(c, p, "connected")
  \/ \E c \in Sockets, p \in Pids : RecoveryTimerFires(c, p)

SpecLink == InitLink /\ [][NextLink]_vars

\* --------------------------------------------- the relay, as clients see it
\* The relay with sockets that keep one participant ID each, join the Talk
\* room or a room of the client's ROOMS that the server has no map for, and
\* send Talk-room messages and signalling; each socket remembers whom it was told of, per
\* room (cl[s].seen).
ToldOf(out, c) ==
  UNION {IF out[i].to # c THEN {}
         ELSE IF out[i].msg.type = "user_joined"
           THEN {<<out[i].msg.roomId, out[i].msg.participantId>>}
         ELSE IF out[i].msg.type = "room_users"
           THEN {<<out[i].msg.roomId, out[i].msg.users[j]>> :
                   j \in DOMAIN out[i].msg.users}
         ELSE {} : i \in DOMAIN out}

Observe(cs, out) ==
  [c \in Sockets |-> [cs[c] EXCEPT !.seen = @ \cup ToldOf(out, c)]]

NextSeen ==
  \/ \E s \in Sockets : Connect(s) /\ cl' = Observe(cl, sent')
  \/ \E s \in Sockets, r \in {TalkRoom, UnknownRoom} :
       Join(s, PidOf(s), r) /\ cl' = Observe(cl, sent')
  \/ \E s \in Sockets : Leave(s) /\ cl' = Observe(cl, sent')
  \/ \E s \in Sockets : SocketClosing(s) /\ cl' = Observe(cl, sent')
  \/ \E s \in Sockets : Close(s) /\ cl' = Observe(cl, sent')
  \/ \E s \in Sockets, m \in MsgIds, t \in Texts :
       Message(s, m, t) /\ cl' = Observe(cl, sent')
  \/ \E s \in Sockets, k \in RtcKinds, t \in Pids, y \in Payloads :
       RtcRelay(s, k, t, y) /\ cl' = Observe(cl, sent')

SpecSeen == Init /\ [][NextSeen]_vars

\* ------------------------------------------- the drawing room, on the wire
\* The relay's drawing room with what each socket was sent about the drawing,
\* in the order the server wrote it (cl[s].inbox; no page reads it here).
DrawingTypes == {"drawing_history", "draw_stroke", "clear_drawing"}

DeliverDrawing(cs, out) ==
  [c \in Sockets |->
     [cs[c] EXCEPT !.inbox =
        @ \o SelectSeq(Arrived(out, c), LAMBDA m : m.type \in DrawingTypes)]]

WireHasRoom == \A c \in Sockets : Len(cl[c].inbox) < MaxWire

NextWire ==
  \/ \E s \in Sockets : Connect(s) /\ cl' = DeliverDrawing(cl, sent')
  \/ \E s \in Sockets, r \in {TalkRoom, DrawRoom} :
       WireHasRoom /\ Join(s, PidOf(s), r) /\ cl' = DeliverDrawing(cl, sent')
  \/ \E s \in Sockets : Leave(s) /\ cl' = DeliverDrawing(cl, sent')
  \/ \E s \in Sockets : Close(s) /\ cl' = DeliverDrawing(cl, sent')
  \/ \E s \in Sockets :
       WireHasRoom /\ strokeCount < MaxStrokes /\ DrawStroke(s)
       /\ cl' = DeliverDrawing(cl, sent')
  \/ \E s \in Sockets :
       WireHasRoom /\ ClearDrawing(s) /\ cl' = DeliverDrawing(cl, sent')

SpecWire == Init /\ [][NextWire]_vars

\* ------------------------------------------- the video room, come and gone
\* The page of socket 1 enters the video room once and may leave it; the
\* participant of socket 2 enters and leaves rooms but sends no signalling
\* of its own. Only what the relay writes to the page is kept, and presence
\* is left out (handleMessage only stores its counts).
Page == 1
Peer == 2

PageHears(cs, out) ==
  [cs EXCEPT ![Page].inbox =
     @ \o SelectSeq(Arrived(out, Page), LAMBDA m : m.type # "presence")]

\* what the peer may put in an offer, an answer, a candidate
PeerPayloads(kind) ==
  CASE kind = "rtc_offer" -> {<<Peer, 1>>, <<Peer, 2>>}
    [] kind = "rtc_answer" -> {[pc |-> <<Peer, 1>>, re |-> <<Page, 1>>]}
    [] kind = "rtc_ice_candidate" -> {"x"}

PeerMayCauseMore ==
  /\ Len(cl[Page].inbox) < MaxInbox
  /\ Len(cl[Page].pcs) < MaxLinks

\* Room1VideoOnly unmounts: the cleanup of its mount effect runs stopCamera.
\* The handlers it registered stay in handlersRef. noted: the peers whose
\* connection was closed, and those dropped from the pending users.
Unmount(st) ==
  [StopCamera(st)
     EXCEPT !.mounted = FALSE,
            !.leftEarly = (st.camera = "pending"),
            !.noted = {<<"closed", q>> : q \in {x \in Pids : st.peers[x] # NoPc}}
                      \cup {<<"dropped", st.pendingUsers[i]>> : i \in DOMAIN st.pendingUsers}]

\* handleFinish (App.jsx): leave is sent and the view changes
LeaveVideoRoom(c) ==
  /\ cl[c].mounted
  /\ cl' = [cl EXCEPT ![c] = Unmount(SendSignal(cl[c], [type |-> "leave"]))]
  /\ UNCHANGED serverVars

\* handleSwitchRoom(4) (App.jsx): leave and join are sent, ZoneView renders
\* the room of the messages, which registers no handlers, and the effect of
\* App sends join once more
SwitchRoom(c) ==
  /\ cl[c].mounted
  /\ LET join == [type |-> "join", roomId |-> DrawRoom, participantId |-> PidOf(c)]
         st1 == SendSignal(SendSignal(cl[c], [type |-> "leave"]), join)
     IN cl' = [cl EXCEPT ![c] = SendSignal(Unmount(st1), join)]
  /\ UNCHANGED serverVars

\* the relay handles the next message of the page: a join
PageJoinServed(c) ==
  /\ cl[c].outbox # <<>>
  /\ Head(cl[c].outbox).type = "join"
  /\ Join(c, Head(cl[c].outbox).participantId, Head(cl[c].outbox).roomId)
  /\ cl' = PageHears([cl EXCEPT ![c].outbox = Tail(@)], sent')

\* the relay handles the next message of the page: a leave
PageLeaveServed(c) ==
  /\ cl[c].outbox # <<>>
  /\ Head(cl[c].outbox).type = "leave"
  /\ Leave(c)
  /\ cl' = PageHears([cl EXCEPT ![c].outbox = Tail(@)], sent')

\* the relay handles the next message of the page: an rtc_offer or rtc_answer
PageSignalServed(c) ==
  /\ cl[c].outbox # <<>>
  /\ Head(cl[c].outbox).type \in {"rtc_offer", "rtc_answer"}
  /\ RtcRelay(c, Head(cl[c].outbox).type, Head(cl[c].outbox).targetId,
              Head(cl[c].outbox).payload)
  /\ cl' = PageHears([cl EXCEPT ![c].outbox = Tail(@)], sent')

\* the peer's page enters a room
PeerJoins(r) ==
  /\ currentRoom[Peer] = NoRoom
  /\ cl[Peer].visits < MaxPeerVisits
  /\ PeerMayCauseMore
  /\ Join(Peer, PidOf(Peer), r)
  /\ cl' = PageHears([cl EXCEPT ![Peer].visits = @ + 1], sent')

\* the peer's page leaves its room
PeerLeaves ==
  /\ currentRoom[Peer] # NoRoom
  /\ Len(cl[Page].inbox) < MaxInbox
  /\ Leave(Peer)
  /\ cl' = PageHears(cl, sent')

\* the peer's page signals the page
PeerSignals(kind, payload) ==
  /\ currentRoom[Peer] = VideoRoom
  /\ PeerMayCauseMore
  /\ RtcRelay(Peer, kind, PidOf(Page), payload)
  /\ cl' = PageHears(cl, sent')

\* the callback of handleMessage's setTimeout(..., 100) runs
DispatchUserLeft(c) ==
  /\ cl[c].deferred # <<>>
  /\ LET e == Head(cl[c].deferred)
         st1 == OnUserLeft([cl[c] EXCEPT !.deferred = Tail(@), !.noted = {}], e.peer)
     IN cl' = [cl EXCEPT ![c] =
                 IF cl[c].handlers
                   THEN [st1 EXCEPT !.graceOf[e.peer] =
                           IF st1.grace[e.peer] > cl[c].grace[e.peer]
                             THEN Append(@, e.had) ELSE @]
                   ELSE [cl[c] EXCEPT !.deferred = Tail(@)]]
  /\ UNCHANGED serverVars

\* the callback of onUserLeft's setTimeout(..., 5000) runs
GraceTimerFires(c, p) ==
  /\ cl[c].grace[p] > 0
  /\ cl' = [cl EXCEPT ![c] = OnGraceTimeout([cl[c] EXCEPT !.grace[p] = @ - 1,
                                                         !.graceOf[p] = Tail(@)], p)]
  /\ UNCHANGED serverVars

NextVisit ==
  \/ cl[Page].visits = 0 /\ EnterRoom(Page)
  \/ CameraReady(Page)
  \/ CameraDenied(Page)
  \/ LeaveVideoRoom(Page)
  \/ SwitchRoom(Page)
  \/ PageJoinServed(Page)
  \/ PageLeaveServed(Page)
  \/ PageSignalServed(Page)
  \/ \E r \in {VideoRoom, DrawRoom} : PeerJoins(r)
  \/ PeerLeaves
  \/ Receive(Page)
  \/ DispatchUserLeft(Page)
  \/ GraceTimerFires(Page, PidOf(Peer))
  \/ \E t \in cl[Page].tasks : ContinueConnectToPeer(Page, t)
  \/ \E t \in cl[Page].tasks : RejectOnClosed(Page, t)
  \/ \E t \in cl[Page].tasks : AbandonOnClosed(Page, t)

\* both sockets are connected and nobody is in a room
InitVisit ==
  /\ cl = [c \in Sockets |-> FreshClient]
  /\ conn = [s \in Sockets |-> "open"]
  /\ participantId = [s \in Sockets |-> NoPid]
  /\ currentRoom = [s \in Sockets |-> NoRoom]
  /\ rooms = [r \in RoomIds |-> <<>>]
  /\ drawingHistory = <<>>
  /\ strokeCount = 0
  /\ accepted = <<>>
  /\ sent = <<>>

SpecVisit == InitVisit /\ [][NextVisit]_vars

\* ------------------------------------------------ the video room, parting
\* The page holds a connection to the peer, fresh from the handshake; its
\* transport reports, the peer leaves, the page may leave, and the timers of
\* the page fire at any moment after they were armed.
PartingClient(c) ==
  [EstablishedClient(c) EXCEPT !.pcs[1].state = "new", !.pcs[1].ice = "new",
                               !.visits = 1]

InitPart ==
  /\ cl = [c \in Sockets |-> PartingClient(c)]
  /\ conn = [s \in Sockets |-> "open"]
  /\ participantId = [s \in Sockets |-> PidOf(s)]
  /\ currentRoom = [s \in Sockets |-> VideoRoom]
  /\ rooms = [r \in RoomIds |->
                IF r = VideoRoom THEN <<[id |-> "a", ws |-> 1], [id |-> "b", ws |-> 2]>>
                                 ELSE <<>>]
  /\ drawingHistory = <<>>
  /\ strokeCount = 0
  /\ accepted = <<>>
  /\ sent = <<>>

NextPart ==
  \/ TransportReports(Page, PidOf(Peer), "connecting")
  \/ TransportReports(Page, PidOf(Peer), "connected")
  \/ TransportReports(Page, PidOf(Peer), "disconnected")
  \/ TransportReports(Page, PidOf(Peer), "failed")
  \/ RecoveryTimerFires(Page, PidOf(Peer))
  \/ PeerLeaves
  \/ Receive(Page)
  \/ DispatchUserLeft(Page)
  \/ GraceTimerFires(Page, PidOf(Peer))
  \/ LeaveVideoRoom(Page)
  \/ PageLeaveServed(Page)

SpecPart == InitPart /\ [][NextPart]_vars

\* ----------------------------------------------- the video room, signalled
\* The page is in the video room with its stream ready; the peer enters and
\* sends offers, answers and candidates as any peer could.
SignalledClient ==
  [FreshClient EXCEPT !.mounted = TRUE, !.camera = "ready", !.stream = TRUE,
                      !.handlers = TRUE, !.visits = 1]

InitSignal ==
  /\ cl = [c \in Sockets |-> IF c = Page THEN SignalledClient ELSE FreshClient]
  /\ conn = [s \in Sockets |-> "open"]
  /\ participantId = [s \in Sockets |-> IF s = Page THEN PidOf(s) ELSE NoPid]
  /\ currentRoom = [s \in Sockets |-> IF s = Page THEN VideoRoom ELSE NoRoom]
  /\ rooms = [r \in RoomIds |->
                IF r = VideoRoom THEN <<[id |-> PidOf(Page), ws |-> Page]>> ELSE <<>>]
  /\ drawingHistory = <<>>
  /\ strokeCount = 0
  /\ accepted = <<>>
  /\ sent = <<>>

NextSignal ==
  \/ PeerJoins(VideoRoom)
  \/ \E k \in RtcKinds : \E y \in PeerPayloads(k) : PeerSignals(k, y)
  \/ PageSignalServed(Page)
  \/ Receive(Page)
  \/ \E t \in cl[Page].tasks : ContinueConnectToPeer(Page, t)
  \/ \E t \in cl[Page].tasks : ContinueHandleOffer(Page, t)
  \/ \E t \in cl[Page].tasks : ContinueHandleAnswer(Page, t)
  \/ \E t \in cl[Page].tasks : RejectOnClosed(Page, t)
  \/ \E t \in cl[Page].tasks : AbandonOnClosed(Page, t)

SpecSignal == InitSignal /\ [][NextSignal]_vars

\* ------------------------------------------- the video room, offers crossing
\* The page is in the video room with its stream ready; the peer enters, so
\* that the page starts connectToPeer, and sends offers of its own.
NextGlare ==
  \/ PeerJoins(VideoRoom)
  \/ \E y \in PeerPayloads("rtc_offer") : PeerSignals("rtc_offer", y)
  \/ PageSignalServed(Page)
  \/ Receive(Page)
  \/ \E t \in cl[Page].tasks : ContinueConnectToPeer(Page, t)
  \/ \E t \in cl[Page].tasks : ContinueHandleOffer(Page, t)
  \/ \E t \in cl[Page].tasks : RejectOnClosed(Page, t)
  \/ \E t \in cl[Page].tasks : AbandonOnClosed(Page, t)

SpecGlare == InitSignal /\ [][NextGlare]_vars

\* ------------------------------------- the video room, a connection renewed
\* The page is in the video room with its stream ready; the peer enters and
\* sends offers while the transport of the connection to it reports its
\* state and the recovery timer fires at any moment after it was armed.
\* the peer's offers are all alike in these runs
AnOffer == CHOOSE y \in PeerPayloads("rtc_offer") : TRUE

NextRenew ==
  \/ PeerJoins(VideoRoom)
  \/ PeerSignals("rtc_offer", AnOffer)
  \/ PageSignalServed(Page)
  \/ Receive(Page)
  \/ \E t \in cl[Page].tasks : ContinueConnectToPeer(Page, t)
  \/ \E t \in cl[Page].tasks : ContinueHandleOffer(Page, t)
  \/ \E t \in cl[Page].tasks : RejectOnClosed(Page, t)
  \/ \E t \in cl[Page].tasks : AbandonOnClosed(Page, t)
  \/ TransportReports(Page, PidOf(Peer), "failed")
  \/ TransportReports(Page, PidOf(Peer), "disconnected")
  \/ TransportReports(Page, PidOf(Peer), "connecting")
  \/ TransportReports(Page, PidOf(Peer), "connected")
  \/ RecoveryTimerFires(Page, PidOf(Peer))

SpecRenew == InitSignal /\ [][NextRenew]_vars

\* ------------------------------------------ the relay, on any other input
\* What a socket can send that no room handler takes: text that is not JSON,
\* JSON without a type, JSON with a type the switch has no case for, a ping.
RawInputs == {"not json", "no type", "unknown type", "ping"}

\* JSON.parse(data.toString()): ok is FALSE when it throws
Parsed(raw) ==
  CASE raw = "not json" -> [ok |-> FALSE, type |-> "undefined"]
    [] raw = "no type" -> [ok |-> TRUE, type |-> "undefined"]
    [] raw = "unknown type" -> [ok |-> TRUE, type |-> "bogus"]
    [] raw = "ping" -> [ok |-> TRUE, type |-> "ping"]

\* the types the switch has a case for
KnownTypes == {"join", "leave", "rtc_offer", "rtc_answer", "rtc_ice_candidate",
               "message", "draw_stroke", "clear_drawing", "ping"}

\* the catch answers the socket with an error message
IgnoredOutError(s) == Send(s, [type |-> "error"])

\* the catch and the default branch log and write nothing
IgnoredOut(s) == <<>>

\* ws.on("message") for these inputs: catch, default, or case "ping"
OtherMessage(s, raw) ==
  /\ conn[s] = "open"
  /\ sent' = IF Parsed(raw).ok /\ Parsed(raw).type = "ping"
               THEN Send(s, [type |-> "pong"])
               ELSE IgnoredOut(s)
  /\ UNCHANGED <<conn, participantId, currentRoom, rooms, drawingHistory,
                 strokeCount, accepted>>

\* the socket is remembered as one whose input was ignored (cl[s].ignored)
Ignoring(cs, s, raw) ==
  IF Parsed(raw).ok /\ Parsed(raw).type \in KnownTypes
    THEN cs
    ELSE [cs EXCEPT ![s].ignored = TRUE]

NextInput ==
  \/ \E s \in Sockets : Connect(s) /\ UNCHANGED cl
  \/ \E s \in Sockets, r \in {TalkRoom, DrawRoom} : Join(s, PidOf(s), r) /\ UNCHANGED cl
  \/ \E s \in Sockets : Leave(s) /\ UNCHANGED cl
  \/ \E s \in Sockets : Close(s) /\ UNCHANGED cl
  \/ \E s \in Sockets, m \in MsgIds, t \in Texts : Message(s, m, t) /\ UNCHANGED cl
  \/ \E s \in Sockets : strokeCount < MaxStrokes /\ DrawStroke(s) /\ UNCHANGED cl
  \/ \E s \in Sockets, raw \in RawInputs :
       OtherMessage(s, raw) /\ cl' = Ignoring(cl, s, raw)

SpecInput == Init /\ [][NextInput]_vars

\* ------------------------------------------------ the clients, on and off
\* useWebSocket.js and the room handlers of App.jsx. Client k has participant
\* ID PidOf(k); its socket is cl[k].ws. The relay numbers a connection with
\* a number no live connection and no membership record holds.
Clients == {1, 2}
ClientRooms == {VideoRoom, AudioRoom}

\* handleMessage(data): what it makes of roomUsers
SetRoomUsers(prev, data) ==
  CASE data.type = "room_users" -> data.users
    [] data.type = "user_joined" ->
         IF \E i \in DOMAIN prev : prev[i] = data.participantId
           THEN prev ELSE Append(prev, data.participantId)
    [] data.type = "user_left" -> SelectSeq(prev, LAMBDA id : id # data.participantId)
    [] OTHER -> prev

\* wsRef.current.send(...) under its test of readyState
SendIfOpen(st, message) ==
  IF st.up THEN [st EXCEPT !.outbox = Append(@, message)] ELSE st

\* joinRoom(roomId)
JoinRoom(st, self, roomId) ==
  LET isChangingRoom == st.roomRef # roomId
      st1 == [st EXCEPT !.roomRef = roomId,
                        !.roomUsers = IF isChangingRoom THEN <<>> ELSE @]
  IN SendIfOpen(st1, [type |-> "join", roomId |-> roomId, participantId |-> self])

\* leaveRoom()
LeaveRoom(st) ==
  SendIfOpen([st EXCEPT !.roomRef = NoRoom, !.roomUsers = <<>>], [type |-> "leave"])

\* the effect of App that joins the room of the session when isConnected or
\* the room of the session changed
SyncEffect(st, self) ==
  IF st.up /\ st.roomRef # NoRoom THEN JoinRoom(st, self, st.roomRef) ELSE st

\* ws.onopen without its test of currentRoomRef
OnOpenAlways(st, self) ==
  [st EXCEPT !.up = TRUE, !.closedIn = NoRoom,
             !.outbox = Append(@, [type |-> "join", roomId |-> st.roomRef,
                                   participantId |-> self])]

\* ws.onopen: the room of currentRoomRef is joined again
OnOpen(st, self) ==
  LET st1 == [st EXCEPT !.up = TRUE, !.closedIn = NoRoom]
  IN IF st1.roomRef # NoRoom
       THEN [st1 EXCEPT !.outbox = Append(@, [type |-> "join", roomId |-> st1.roomRef,
                                             participantId |-> self]),
                        !.rejoined = IF st.drops > 0 THEN @ \cup {st1.roomRef} ELSE @]
       ELSE st1

\* ws.onclose: the timer of the reconnect is set; what was written to the
\* socket and not yet read is lost
OnClose(st) ==
  [st EXCEPT !.up = FALSE, !.retry = TRUE, !.outbox = <<>>, !.inbox = <<>>,
             !.drops = @ + 1, !.closedIn = st.roomRef]

\* ws.onmessage of every client whose socket the handler wrote to
Heard(cs, out) ==
  [k \in Clients |->
     IF cs[k].up
       THEN [cs[k] EXCEPT !.inbox =
               @ \o SelectSeq(Arrived(out, cs[k].ws), LAMBDA m : m.type # "presence")]
       ELSE cs[k]]

\* no connection the relay still serves, and no membership record, has number s
Unused(s) ==
  /\ conn[s] \in {"none", "closed"}
  /\ \A r \in RoomIds : \A i \in DOMAIN rooms[r] : rooms[r][i].ws # s
  /\ \A k \in Clients : cl[k].ws = s => ~cl[k].up

\* wss.on("connection") for a connection numbered s
Accept(s) ==
  /\ Unused(s)
  /\ conn' = [conn EXCEPT ![s] = "open"]
  /\ participantId' = [participantId EXCEPT ![s] = NoPid]
  /\ currentRoom' = [currentRoom EXCEPT ![s] = NoRoom]
  /\ sent' = Send(s, [type |-> "presence", counts |-> GetRoomCounts(rooms)])
  /\ UNCHANGED <<rooms, drawingHistory, strokeCount, accepted>>

\* connect(): the socket opens, ws.onopen runs and then the effect of App
SocketOpens(k, s) ==
  /\ cl[k].retry /\ ~cl[k].up
  /\ Accept(s)
  /\ cl' = [cl EXCEPT ![k] =
              SyncEffect(OnOpen([cl[k] EXCEPT !.retry = FALSE, !.ws = s], PidOf(k)),
                         PidOf(k))]

\* the sockets that have closed so far, over the clients ks
RECURSIVE DropsOf(_)
DropsOf(ks) ==
  IF ks = {} THEN 0
  ELSE LET k == CHOOSE x \in ks : TRUE IN cl[k].drops + DropsOf(ks \ {k})

\* the socket of client k closes as the client sees it
SocketDrops(k) ==
  /\ cl[k].up
  /\ DropsOf(Clients) < MaxDrops
  /\ cl' = [cl EXCEPT ![k] = OnClose(cl[k])]
  /\ UNCHANGED serverVars

\* the relay gets the close event of a socket its client has given up
ServerCloses(s) ==
  /\ \A k \in Clients : cl[k].ws = s => ~cl[k].up
  /\ Close(s)
  /\ cl' = Heard(cl, sent')

\* handleEnterRoom(r)
HandleEnterRoom(k, r) ==
  /\ cl[k].roomRef = NoRoom
  /\ cl[k].moves < MaxMoves
  /\ cl' = [cl EXCEPT ![k] =
              SyncEffect(JoinRoom([cl[k] EXCEPT !.moves = @ + 1], PidOf(k), r), PidOf(k))]
  /\ UNCHANGED serverVars

\* handleSwitchRoom(r)
HandleSwitchRoom(k, r) ==
  /\ cl[k].roomRef \notin {NoRoom, r}
  /\ cl[k].moves < MaxMoves
  /\ cl' = [cl EXCEPT ![k] =
              SyncEffect(JoinRoom(LeaveRoom([cl[k] EXCEPT !.moves = @ + 1]), PidOf(k), r),
                         PidOf(k))]
  /\ UNCHANGED serverVars

\* handleFinish()
HandleFinish(k) ==
  /\ cl[k].roomRef # NoRoom
  /\ cl[k].moves < MaxMoves
  /\ cl' = [cl EXCEPT ![k] = LeaveRoom([cl[k] EXCEPT !.moves = @ + 1])]
  /\ UNCHANGED serverVars

\* the relay handles the next message of client k: a join
ClientJoinServed(k) ==
  /\ cl[k].up /\ cl[k].outbox # <<>>
  /\ Head(cl[k].outbox).type = "join"
  /\ Join(cl[k].ws, Head(cl[k].outbox).participantId, Head(cl[k].outbox).roomId)
  /\ cl' = Heard([cl EXCEPT ![k].outbox = Tail(@)], sent')

\* the relay handles the next message of client k: a leave
ClientLeaveServed(k) ==
  /\ cl[k].up /\ cl[k].outbox # <<>>
  /\ Head(cl[k].outbox).type = "leave"
  /\ Leave(cl[k].ws)
  /\ cl' = Heard([cl EXCEPT ![k].outbox = Tail(@)], sent')

\* ws.onmessage of client k
ClientReceives(k) ==
  /\ cl[k].up /\ cl[k].inbox # <<>>
  /\ cl' = [cl EXCEPT ![k].inbox = Tail(@),
                      ![k].roomUsers = SetRoomUsers(@, Head(cl[k].inbox))]
  /\ UNCHANGED serverVars

NextOnline ==
  \/ \E k \in Clients, s \in Sockets : SocketOpens(k, s)
  \/ \E k \in Clients : SocketDrops(k)
  \/ \E s \in Sockets : ServerCloses(s)
  \/ \E k \in Clients, r \in ClientRooms : HandleEnterRoom(k, r)
  \/ \E k \in Clients, r \in ClientRooms : HandleSwitchRoom(k, r)
  \/ \E k \in Clients : HandleFinish(k)
  \/ \E k \in Clients : ClientJoinServed(k)
  \/ \E k \in Clients : ClientLeaveServed(k)
  \/ \E k \in Clients : ClientReceives(k)

\* both clients have mounted: connect() is due
InitOnline ==
  /\ cl = [k \in Clients |-> [FreshClient EXCEPT !.retry = TRUE]]
  /\ conn = [s \in Sockets |-> "none"]
  /\ participantId = [s \in Sockets |-> NoPid]
  /\ currentRoom = [s \in Sockets |-> NoRoom]
  /\ rooms = [r \in RoomIds |-> <<>>]
  /\ drawingHistory = <<>>
  /\ strokeCount = 0
  /\ accepted = <<>>
  /\ sent = <<>>

SpecOnline == InitOnline /\ [][NextOnline]_vars

\* one client alone with the relay
FirstClient == CHOOSE k \in Clients : \A j \in Clients : k <= j

NextRejoin ==
  \/ \E s \in Sockets : SocketOpens(FirstClient, s)
  \/ SocketDrops(FirstClient)
  \/ \E s \in Sockets : ServerCloses(s)
  \/ \E r \in ClientRooms : HandleEnterRoom(FirstClient, r)
  \/ \E r \in ClientRooms : HandleSwitchRoom(FirstClient, r)
  \/ HandleFinish(FirstClient)
  \/ ClientJoinServed(FirstClient)
  \/ ClientLeaveServed(FirstClient)
  \/ ClientReceives(FirstClient)

\* the reconnect timer fires and the relay accepts; the relay gets the close
\* event of every socket that closed
SpecRejoin ==
  /\ InitOnline /\ [][NextRejoin]_vars
  /\ WF_vars(\E s \in Sockets : SocketOpens(FirstClient, s))
  /\ \A s \in Sockets : WF_vars(ServerCloses(s))

\* ------------------------------------------------------- the audio room
\* Room2AudioOnly.jsx. connectToPeer, handleOffer and handleAnswer start as
\* those of the video room do; the page holds no timers here.

\* removePeer(peerId)
RemovePeerAudio(st, peerId) ==
  IF st.peers[peerId] # NoPc
    THEN [ClosePc(st, st.peers[peerId]) EXCEPT !.peers[peerId] = NoPc]
    ELSE st

\* onRoomUsers(users): every other user is connected to, or pushed on the
\* pending users when the stream is not ready
RECURSIVE OnRoomUsersAudio(_, _, _)
OnRoomUsersAudio(st, self, users) ==
  IF users = <<>> THEN st
  ELSE LET userId == Head(users)
           st1 == IF userId = self THEN st
                  ELSE IF st.stream THEN ConnectToPeerStart(st, userId)
                  ELSE [st EXCEPT !.pendingUsers = Append(@, userId)]
       IN OnRoomUsersAudio(st1, self, Tail(users))

\* onRtcOffer(fromId, offer)
OnRtcOfferAudio(st, fromId, offer) ==
  IF st.stream THEN HandleOfferStart(st, fromId, offer)
               ELSE [st EXCEPT !.pendingOffers = Append(@, [fromId |-> fromId, offer |-> offer]),
                               !.queued = @ \cup {offer}]

\* onUserLeft(userId)
OnUserLeftAudio(st, userId) == RemovePeerAudio(st, userId)

\* handleMessage(data) with the handlers of the audio room: onUserJoined only
\* logs
HandleMessageAudio(st, self, data) ==
  IF ~st.handlers THEN st
  ELSE CASE data.type = "room_users" -> OnRoomUsersAudio(st, self, data.users)
         [] data.type = "user_left" -> DeferUserLeft(st, data.participantId)
         [] data.type = "rtc_offer" -> OnRtcOfferAudio(st, data.fromId, data.payload)
         [] data.type = "rtc_answer" -> HandleAnswerStart(st, data.fromId, data.payload)
         [] data.type = "rtc_ice_candidate" ->
              HandleIceCandidate(st, data.fromId, data.payload)
         [] OTHER -> st

\* startMic after getUserMedia resolved: the stream is stored, connectToPeer
\* is called for each of the pending users and handleOffer for each of the
\* pending offers, each up to its first await
StartMicDrain(st) ==
  LET st1 == ConnectEach([st EXCEPT !.stream = TRUE, !.pendingUsers = <<>>],
                         st.pendingUsers)
  IN OfferEach([st1 EXCEPT !.pendingOffers = <<>>], st.pendingOffers)

\* handleEnterRoom(2) sends join; Room2AudioOnly mounts: its effects register
\* the handlers and call startMic, then the effect of App sends join once more
EnterAudioRoom(c) ==
  /\ conn[c] = "open"
  /\ ~cl[c].mounted
  /\ LET join == [type |-> "join", roomId |-> AudioRoom, participantId |-> PidOf(c)]
         st1 == [SendSignal(cl[c], join)
                   EXCEPT !.mounted = TRUE, !.handlers = TRUE, !.camera = "pending"]
     IN cl' = [cl EXCEPT ![c] = [SendSignal(st1, join) EXCEPT !.visits = @ + 1]]
  /\ UNCHANGED serverVars

\* getUserMedia of startMic resolves
StartMicResolved(c) ==
  /\ cl[c].camera = "pending"
  /\ cl' = [cl EXCEPT ![c] = [StartMicDrain(cl[c]) EXCEPT !.camera = "ready", !.noted = {}]]
  /\ UNCHANGED serverVars

\* getUserMedia of startMic rejects
StartMicRejected(c) ==
  /\ cl[c].camera = "pending"
  /\ cl' = [cl EXCEPT ![c].camera = "denied"]
  /\ UNCHANGED serverVars

\* ws.onmessage of page c in the audio room
ReceiveAudio(c) ==
  /\ cl[c].inbox # <<>>
  /\ cl' = [cl EXCEPT ![c] =
              HandleMessageAudio([cl[c] EXCEPT !.inbox = Tail(@), !.noted = {}],
                                 PidOf(c), Head(cl[c].inbox))]
  /\ UNCHANGED serverVars

\* the callback of handleMessage's setTimeout(..., 100) runs
DispatchUserLeftAudio(c) ==
  /\ cl[c].deferred # <<>>
  /\ cl' = [cl EXCEPT ![c] =
              OnUserLeftAudio([cl[c] EXCEPT !.deferred = Tail(@), !.noted = {}],
                              Head(cl[c].deferred).peer)]
  /\ UNCHANGED serverVars

\* the pending queues of the page have room for what the peer may cause
QueuesHaveRoom ==
  /\ Len(cl[Page].pendingUsers) < MaxPending
  /\ Len(cl[Page].pendingOffers) < MaxPending

\* the peer's page signals the page from the audio room
PeerSignalsAudio(kind, payload) ==
  /\ currentRoom[Peer] = AudioRoom
  /\ PeerMayCauseMore
  /\ RtcRelay(Peer, kind, PidOf(Page), payload)
  /\ cl' = PageHears(cl, sent')

\* One page enters the audio room; the peer enters and leaves it and sends
\* offers as any peer could.
NextAudio ==
  \/ cl[Page].visits = 0 /\ EnterAudioRoom(Page)
  \/ StartMicResolved(Page)
  \/ StartMicRejected(Page)
  \/ PageJoinServed(Page)
  \/ PageSignalServed(Page)
  \/ QueuesHaveRoom /\ PeerJoins(AudioRoom)
  \/ PeerLeaves
  \/ \E y \in PeerPayloads("rtc_offer") : QueuesHaveRoom /\ PeerSignalsAudio("rtc_offer", y)
  \/ ReceiveAudio(Page)
  \/ DispatchUserLeftAudio(Page)
  \/ \E t \in cl[Page].tasks : ContinueConnectToPeer(Page, t)
  \/ \E t \in cl[Page].tasks : ContinueHandleOffer(Page, t)
  \/ \E t \in cl[Page].tasks : RejectOnClosed(Page, t)
  \/ \E t \in cl[Page].tasks : AbandonOnClosed(Page, t)

SpecAudio == InitVisit /\ [][NextAudio]_vars

\* ------------------------------------------------------------------ claims
Types(out) == {out[i].msg.type : i \in DOMAIN out}
DeliveriesTo(out, ws) == Cardinality({i \in DOMAIN out : out[i].to = ws})
EntriesOf(m, ws) == Cardinality({i \in DOMAIN m : m[i].ws = ws})
RoomsHolding(p) == {r \in RoomIds : p \in KeySet(rooms[r])}

\* C1: after any sequence of join, leave and close events no participant ID
\* is a key of more than one room's membership map.
C1_OneRoomPerParticipant ==
  \A p \in Pids : Cardinality(RoomsHolding(p)) <= 1

C6_PresenceCountsAreLive ==
  \A i \in DOMAIN sent :
    sent[i].msg.type = "presence"
    => sent[i].msg.counts = [r \in RoomIds |-> Cardinality(KeySet(rooms[r]))]

\* presence sent to two sockets after a change that left one member in each of
\* the Talk and the drawing room
C6_Witness ==
  /\ Cardinality({i \in DOMAIN sent : sent[i].msg.type = "presence"}) = 2
  /\ Len(rooms[TalkRoom]) = 1
  /\ Len(rooms[DrawRoom]) = 1

\* C7: the stroke history never holds more than N = 100 strokes, and after N+k
\* accepted draw_stroke messages with no clear in between it holds exactly the
\* last N of them in the order they were accepted.
C7_HistoryKeepsLastN ==
  /\ Len(drawingHistory) <= MAX_DRAWING_HISTORY
  /\ Len(accepted) <= MAX_DRAWING_HISTORY => drawingHistory = accepted
  /\ Len(accepted) > MAX_DRAWING_HISTORY
       => drawingHistory = SubSeq(accepted, Len(accepted) - MAX_DRAWING_HISTORY + 1,
                                  Len(accepted))

\* N+2 strokes accepted without a clear
C7_Witness ==
  /\ Len(accepted) = MAX_DRAWING_HISTORY + 2
  /\ Len(drawingHistory) = MAX_DRAWING_HISTORY

\* C8: a clear_drawing from a connection in the drawing room empties the stroke
\* history, and a join of the drawing room before any further stroke is
\* accepted is sent no drawing_history.
C8_ClearEmptiesHistory ==
  [][/\ \A s \in Sockets :
          (ClearDrawing(s) /\ currentRoom[s] = DrawRoom) => drawingHistory' = <<>>
     /\ \A s \in Sockets, p \in Pids :
          (Join(s, p, DrawRoom) /\ accepted = <<>>)
          => "drawing_history" \notin Types(sent')]_vars

\* strokes were accepted and cleared, and a join of the drawing room followed
C8_Witness ==
  /\ strokeCount > 0
  /\ accepted = <<>>
  /\ \E i \in DOMAIN sent :
       sent[i].msg.type = "room_users" /\ sent[i].msg.roomId = DrawRoom
  /\ "drawing_history" \notin Types(sent)

\* C9: a message from a connection in the Talk room is delivered once per
\* entry of the Talk room's map whose socket is open and is not the sender's,
\* and to no other socket.
C9_MessageReachesOthersOnly ==
  [][\A s \in Sockets, m \in MsgIds, t \in Texts :
       (Message(s, m, t) /\ MessageAccepted(s))
       => /\ \A i \in DOMAIN sent' :
               sent'[i].msg = [type |-> "message", participantId |-> participantId[s],
                               messageId |-> m, text |-> t]
          /\ \A w \in Sockets :
               DeliveriesTo(sent', w) =
                 IF w # s /\ conn[w] = "open" THEN EntriesOf(rooms[TalkRoom], w) ELSE 0]_vars

\* a message reached another member while its sender, recorded in the Talk
\* room too, got none
C9_Witness ==
  \E i \in DOMAIN sent :
    /\ sent[i].msg.type = "message"
    /\ \E j \in DOMAIN rooms[TalkRoom] :
         /\ rooms[TalkRoom][j].id = sent[i].msg.participantId
         /\ rooms[TalkRoom][j].ws # sent[i].to
         /\ DeliveriesTo(sent, rooms[TalkRoom][j].ws) = 0

\* C10: a draw_stroke from a connection in the drawing room is appended to the
\* stroke history and delivered once per entry of the drawing room's map whose
\* socket is open, the sender's included, and to no other socket.
C10_StrokeStoredAndEchoed ==
  [][\A s \in Sockets :
       (DrawStroke(s) /\ DrawAccepted(s))
       => /\ Len(drawingHistory') > 0
          /\ drawingHistory'[Len(drawingHistory')] = NewStroke(s)
          /\ \A i \in DOMAIN sent' :
               sent'[i].msg = [type |-> "draw_stroke", stroke |-> NewStroke(s)]
          /\ \A w \in Sockets :
               DeliveriesTo(sent', w) =
                 IF conn[w] = "open" THEN EntriesOf(rooms[DrawRoom], w) ELSE 0]_vars

\* a stroke went to its author's socket and to another member's
C10_Witness ==
  \E i, j \in DOMAIN sent :
    /\ sent[i].msg.type = "draw_stroke"
    /\ sent[i].to # sent[j].to
    /\ participantId[sent[i].to] = sent[i].msg.stroke.participantId
    /\ currentRoom[sent[i].to] = DrawRoom
    /\ drawingHistory # <<>>
    /\ drawingHistory[Len(drawingHistory)] = sent[i].msg.stroke

\* ---- the video room
Other(c) == 3 - c

\* the connections of page c to peer p that are not closed
OpenLinks(c, p) ==
  {i \in DOMAIN cl[c].pcs : cl[c].pcs[i].peer = p /\ cl[c].pcs[i].sig # "closed"}

\* page c holds a connection to the other page whose handshake completed with
\* the connection the other page holds to c
Established(c) ==
  LET d == Other(c)
      i == cl[c].peers[PidOf(d)]
      j == cl[d].peers[PidOf(c)]
  IN /\ i # NoPc /\ j # NoPc
     /\ cl[c].pcs[i].sig = "stable" /\ cl[d].pcs[j].sig = "stable"
     /\ cl[c].pcs[i].remote = <<d, j>>
     /\ cl[d].pcs[j].remote = <<c, i>>

\* nothing is in flight and nothing is awaited
Settled ==
  \A c \in Sockets :
    /\ cl[c].inbox = <<>> /\ cl[c].outbox = <<>>
    /\ cl[c].tasks = {} /\ cl[c].camera # "pending"

\* each page sent its offer before it handled the offer of the other
Glare == \A c \in Sockets : PidOf(Other(c)) \in cl[c].blind

OneLinkEach ==
  \A c \in Sockets :
    /\ Cardinality(OpenLinks(c, PidOf(Other(c)))) = 1
    /\ Established(c)

\* C2: when both pages of the video room sent their offer before handling the
\* other's, then once every relayed offer and answer has been handled each
\* page holds exactly one connection to the other, with a completed handshake.
C2_GlareEndsWithOneLink == (Glare /\ Settled) => OneLinkEach

\* C3: an rtc_offer that arrived while the camera stream was not available was
\* queued; once the stream is available it is handled exactly once and exactly
\* one rtc_answer is sent for it.
C3_QueuedOfferIsAnswered ==
  \A c \in Sockets :
    (Settled /\ cl[c].stream) =>
      /\ cl[c].pendingOffers = <<>>
      /\ \A o \in cl[c].queued :
           Cardinality({i \in DOMAIN cl[c].answers : cl[c].answers[i].re = o}) = 1

\* C4: when a page joins the video room where another page is present, the
\* signalling is reliable and the media of both became ready, each ends up
\* holding exactly one connection to the other, with a completed handshake.
C4_JoinEndsWithOneLink ==
  (/\ Settled
   /\ \A c \in Sockets : cl[c].stream /\ MapHas(rooms[VideoRoom], PidOf(c)))
    => OneLinkEach

\* ---- the drawing history on the wire
\* the drawing_history messages among the deliveries of a handler
HistoriesIn(out) == {i \in DOMAIN out : out[i].msg.type = "drawing_history"}

\* every draw_stroke that a socket was sent before a drawing_history is for a
\* stroke accepted no later than the last stroke of that history
HistoryComesFirst ==
  \A c \in Sockets : \A i, j \in DOMAIN cl[c].inbox :
    (/\ cl[c].inbox[i].type = "drawing_history"
     /\ cl[c].inbox[j].type = "draw_stroke"
     /\ j < i)
    => cl[c].inbox[j].stroke.id
         <= cl[c].inbox[i].strokes[Len(cl[c].inbox[i].strokes)].id

\* C11: a join of the drawing room while the stroke history is non-empty is
\* sent exactly one drawing_history, to the joiner, holding the history in
\* order, and the joiner is sent it before any draw_stroke for a stroke that
\* is accepted after the join.
C11_HistoryBeforeNewStrokes ==
  /\ []HistoryComesFirst
  /\ [][\A s \in Sockets, p \in Pids :
          (Join(s, p, DrawRoom) /\ drawingHistory # <<>>)
          => /\ Cardinality(HistoriesIn(sent')) = 1
             /\ \A i \in HistoriesIn(sent') :
                  /\ sent'[i].to = s
                  /\ sent'[i].msg.strokes = drawingHistory
                  /\ drawingHistory = accepted
             /\ "draw_stroke" \notin Types(sent')]_vars

\* a socket was sent the history of one stroke and then the broadcast of the
\* next stroke
C11_Witness ==
  \E c \in Sockets : \E i, j \in DOMAIN cl[c].inbox :
    /\ i < j
    /\ cl[c].inbox[i].type = "drawing_history"
    /\ Len(cl[c].inbox[i].strokes) = 1
    /\ cl[c].inbox[j].type = "draw_stroke"
    /\ cl[c].inbox[j].stroke.id = 2

\* ---- recovery of an established connection
LinkOf(c, p) == cl[c].peers[p]

\* C12: when the transport of an established connection reported failed or
\* disconnected and reports connected before the recovery timer fires, the
\* same connection stays in the peer table, is not closed and no new one is
\* created, and the pending timer is cancelled: a connection whose transport
\* is connected has no timer that could tear it down.
C12_RecoveryKeepsLink ==
  /\ [](\A c \in Sockets, p \in Pids :
          (LinkOf(c, p) # NoPc /\ cl[c].pcs[LinkOf(c, p)].state = "connected")
          => cl[c].timers[p] = "none")
  /\ [][\A c \in Sockets, p \in Pids :
          (TransportReports(c, p, "connected") /\ cl[c].timers[p] # "none")
          => /\ LinkOf(c, p)' = LinkOf(c, p)
             /\ Len(cl'[c].pcs) = Len(cl[c].pcs)
             /\ cl'[c].pcs[LinkOf(c, p)].sig # "closed"
             /\ cl'[c].timers[p] = "none"]_vars

\* a transport recovered under a pending timer and is connected, on the one
\* connection the page ever created, and no timer is left
C12_Witness ==
  /\ "b" \in cl[1].recovered
  /\ LinkOf(1, "b") = 1 /\ Len(cl[1].pcs) = 1
  /\ cl[1].pcs[1].state = "connected"
  /\ cl[1].timers["b"] = "none"

\* C13: when the recovery timer armed for a failed (or disconnected) transport
\* fires, and the transport has not reported connected or completed since,
\* the connection is closed and removed from the peer table.
C13_TimerTearsDown ==
  [][\A c \in Sockets, p \in Pids :
       RecoveryTimerFires(c, p)
       => /\ LinkOf(c, p)' = NoPc
          /\ cl'[c].pcs[LinkOf(c, p)].sig = "closed"]_vars

\* ---- targeted signalling
\* C14: an rtc_offer, rtc_answer or rtc_ice_candidate from a connection whose
\* room is r is delivered at most once, only to the socket recorded under
\* targetId in the membership map of r, with fromId the sender's participant
\* ID and the payload as sent; no socket without that entry in r's map gets it.
C14_SignalReachesTargetOnly ==
  [][\A s \in Sockets, k \in RtcKinds, t \in Pids \cup {NoPid}, y \in Payloads :
       RtcRelay(s, k, t, y)
       => /\ Len(sent') <= 1
          /\ \A i \in DOMAIN sent' :
               /\ sent'[i].msg = [type |-> k, fromId |-> participantId[s], payload |-> y]
               /\ currentRoom[s] # NoRoom
               /\ \E j \in DOMAIN rooms[currentRoom[s]] :
                    /\ rooms[currentRoom[s]][j].id = t
                    /\ rooms[currentRoom[s]][j].ws = sent'[i].to]_vars

\* a candidate from one member of the Talk room was relayed to the other
\* member's socket and to nobody else
C14_Witness ==
  /\ Len(sent) = 1
  /\ sent[1].msg.type = "rtc_ice_candidate"
  /\ Len(rooms[TalkRoom]) = 2
  /\ \E i, j \in DOMAIN rooms[TalkRoom] :
       /\ rooms[TalkRoom][i].id = sent[1].msg.fromId
       /\ rooms[TalkRoom][j].ws = sent[1].to
       /\ rooms[TalkRoom][i].ws # rooms[TalkRoom][j].ws

\* ---- what a client is told of the others
\* C15: a socket is sent user_left for a participant and a room only after it
\* was sent that participant in a room_users list or a user_joined message of
\* that room.
C15_LeftOnlyAfterSeen ==
  [][\A i \in DOMAIN sent' :
       sent'[i].msg.type = "user_left"
       => <<sent'[i].msg.roomId, sent'[i].msg.participantId>>
            \in cl[sent'[i].to].seen]_vars

\* C16: a leave message or a socket close removes an entry and sends user_left
\* and presence only if the connection's participant is recorded in a room;
\* when the participant is recorded in no room (as on a second leave) no map
\* changes and neither user_left nor presence is sent.
C16_DepartOnlyIfRecorded ==
  [][\A s \in Sockets :
       ((Leave(s) \/ Close(s)) /\ RoomsHolding(participantId[s]) = {})
       => /\ rooms' = rooms
          /\ Types(sent') \cap {"user_left", "presence"} = {}]_vars

\* ---- changing rooms
\* the deliveries of message m to socket w among the deliveries of a handler
Copies(out, m, w) ==
  Cardinality({i \in DOMAIN out : out[i].msg = m /\ out[i].to = w})

C18_PresenceToEveryOpenSocket ==
  [][rooms' # rooms
     => \A w \in Sockets :
          Copies(sent', [type |-> "presence", counts |-> GetRoomCounts(rooms')], w)
            = IF conn'[w] = "open" THEN 1 ELSE 0]_vars

\* a join was answered with room_users, and presence also went to an open
\* socket that is in no room
C18_Witness ==
  \E i, j \in DOMAIN sent :
    /\ sent[i].msg.type = "room_users"
    /\ sent[j].msg.type = "presence"
    /\ sent[j].to # sent[i].to
    /\ currentRoom[sent[j].to] = NoRoom
    /\ \A r \in RoomIds : EntriesOf(rooms[r], sent[j].to) = 0

\* ---- messages from outside their room
\* C19: a message, draw_stroke or clear_drawing from a connection whose
\* participant is not recorded in the room the type belongs to (the Talk room
\* for message, the drawing room for draw_stroke and clear_drawing) is
\* ignored: nothing is sent to anyone and the stroke history is unchanged.
C19_OutsidersAreIgnored ==
  [][\A s \in Sockets :
       /\ ((\E m \in MsgIds, t \in Texts : Message(s, m, t))
             /\ participantId[s] \notin KeySet(rooms[TalkRoom]))
          => (sent' = <<>> /\ drawingHistory' = drawingHistory)
       /\ ((DrawStroke(s) \/ ClearDrawing(s))
             /\ participantId[s] \notin KeySet(rooms[DrawRoom]))
          => (sent' = <<>> /\ drawingHistory' = drawingHistory)]_vars

\* C20: an rtc_offer, rtc_answer or rtc_ice_candidate from a connection whose
\* participant is recorded in no room, or whose targetId is not a key of the
\* map of the sender's room, is not delivered, gets no reply and changes no
\* state of the server.
C20_SignalNeedsMembership ==
  [][\A s \in Sockets, k \in RtcKinds, t \in Pids \cup {NoPid}, y \in Payloads :
       (/\ RtcRelay(s, k, t, y)
        /\ \/ RoomsHolding(participantId[s]) = {}
           \/ currentRoom[s] = NoRoom
           \/ t \notin KeySet(rooms[currentRoom[s]]))
       => /\ sent' = <<>>
          /\ UNCHANGED <<rooms, currentRoom, participantId, drawingHistory>>]_vars

\* ---- input the relay does not understand
\* C21: an unparsable payload, or a message whose type is missing or unknown,
\* changes no membership map, no stroke history and no participant ID or
\* current room of any connection, sends nothing to any client, and leaves
\* the connection open, so that later messages of the socket are handled.
C21_BadInputIsIgnored ==
  [][\A s \in Sockets, raw \in RawInputs :
       (/\ OtherMessage(s, raw)
        /\ (~Parsed(raw).ok \/ Parsed(raw).type \notin KnownTypes))
       => /\ UNCHANGED <<rooms, drawingHistory, participantId, currentRoom, conn>>
          /\ sent' = <<>>
          /\ conn'[s] = "open"]_vars

\* a socket whose input was ignored joined the Talk room afterwards and was
\* answered with room_users
C21_Witness ==
  \E s \in Sockets :
    /\ cl[s].ignored
    /\ participantId[s] \in KeySet(rooms[TalkRoom])
    /\ \E i \in DOMAIN sent :
         sent[i].to = s /\ sent[i].msg.type = "room_users"

\* ---- leaving the video room
\* the signalling messages among those the page has not yet handed to the relay
SignalsIn(out) ==
  {i \in DOMAIN out : out[i].type \in {"rtc_offer", "rtc_answer"}}

\* C22: when the page left the video room before getUserMedia settled, then
\* after it resolves the room instance creates no connection and sends no
\* rtc_offer and no rtc_answer, neither for work that was queued nor for
\* room_users, user_joined or rtc_offer messages that arrive afterwards.
C22_EarlyLeaveCancelsWork ==
  \A c \in Sockets :
    cl[c].leftEarly
    => /\ cl[c].pcs = <<>>
       /\ cl[c].tasks = {}
       /\ SignalsIn(cl[c].outbox) = {}

\* C23: messages about one peer take effect on the page in the order they
\* were received: the callback of a user_left of X changes nothing when a
\* user_joined or an rtc_offer of X received after it was handled before it.
C23_UserLeftKeepsItsPlace ==
  [][\A c \in Sockets :
       (DispatchUserLeft(c) /\ Head(cl[c].deferred).overtaken)
       => /\ cl'[c].peers = cl[c].peers
          /\ cl'[c].pcs = cl[c].pcs
          /\ cl'[c].grace = cl[c].grace]_vars

\* C26: after the page left the video room (stopCamera) its peer table is
\* empty, every connection it held is closed, and the pending users and the
\* pending offers are empty.
C26_LeaveTearsDownLinks ==
  [][\A c \in Sockets :
       (LeaveVideoRoom(c) \/ SwitchRoom(c))
       => /\ cl'[c].peers = NoPeers
          /\ \A i \in DOMAIN cl'[c].pcs : cl'[c].pcs[i].sig = "closed"
          /\ \A p \in Pids : OpenLinks(c, p)' = {}
          /\ cl'[c].pendingUsers = <<>>
          /\ cl'[c].pendingOffers = <<>>]_vars

\* the page left the room holding a connection to the peer and with the peer
\* among its pending users
C26_Witness ==
  /\ ~cl[Page].mounted
  /\ cl[Page].noted = {<<"closed", PidOf(Peer)>>, <<"dropped", PidOf(Peer)>>}
  /\ cl[Page].pcs # <<>>
  /\ cl[Page].peers = NoPeers

\* C27: after the page left the video room no recovery timer and no grace
\* timer of a user_left is armed for any peer.
C27_LeaveCancelsTimers ==
  [][\A c \in Sockets :
       (LeaveVideoRoom(c) \/ SwitchRoom(c))
       => \A p \in Pids : cl'[c].timers[p] = "none" /\ cl'[c].grace[p] = 0]_vars

\* ---- the pending users
\* C28: while the camera stream is not available, a peer learnt of through
\* room_users or user_joined is put in the pending users and no connection is
\* created, and the pending users never hold one participant ID twice.
C28_PendingUsersAreDistinct ==
  \A c \in Sockets :
    /\ \A i, j \in DOMAIN cl[c].pendingUsers :
         cl[c].pendingUsers[i] = cl[c].pendingUsers[j] => i = j
    /\ (~cl[c].stream /\ ~cl[c].leftEarly /\ cl[c].camera = "pending")
         => cl[c].pcs = <<>>

\* C29: a connect request for a peer the page holds a connection to, from a
\* room_users or user_joined message or from the pending users, creates no
\* connection and starts no offer.
C29_LinkedPeerIsSkipped ==
  /\ [](\A c \in Sockets, p \in Pids :
          cl[c].peers[p] # NoPc
          => LET st == ConnectEach([cl[c] EXCEPT !.noted = {}], <<p, p>>)
             IN [st EXCEPT !.noted = {}] = [cl[c] EXCEPT !.noted = {}])
  /\ [][\A c \in Sockets, p \in Pids :
          (/\ Receive(c)
           /\ cl[c].handlers
           /\ cl[c].peers[p] # NoPc
           /\ \/ /\ Head(cl[c].inbox).type = "user_joined"
                 /\ Head(cl[c].inbox).participantId = p
              \/ /\ Head(cl[c].inbox).type = "room_users"
                 /\ Head(cl[c].inbox).users = <<p>>)
          => /\ cl'[c].pcs = cl[c].pcs
             /\ cl'[c].peers = cl[c].peers
             /\ cl'[c].tasks = cl[c].tasks
             /\ cl'[c].outbox = cl[c].outbox
             /\ cl'[c].pendingUsers = cl[c].pendingUsers]_vars

\* the page was told of the peer while holding an open connection to it, and
\* still holds that one connection
C29_Witness ==
  /\ cl[Page].noted = {<<"skipped", PidOf(Peer)>>}
  /\ cl[Page].stream
  /\ cl[Page].peers[PidOf(Peer)] = 1
  /\ Len(cl[Page].pcs) = 1
  /\ cl[Page].pcs[1].sig # "closed"

\* ---- an offer for a peer the page holds a connection to
\* the connections to peer p of a page in state st that are not closed
OpenLinksOf(st, p) ==
  {i \in DOMAIN st.pcs : st.pcs[i].peer = p /\ st.pcs[i].sig # "closed"}

C25_UserLeftGrace ==
  /\ [][\A c \in Sockets :
          (DispatchUserLeft(c) /\ cl[c].handlers)
          => LET p == Head(cl[c].deferred).peer
                 i == cl[c].peers[p]
             IN IF i = NoPc
                  THEN [cl'[c] EXCEPT !.noted = {}]
                         = [cl[c] EXCEPT !.deferred = Tail(@), !.noted = {}]
                ELSE IF \/ cl[c].pcs[i].state \in {"new", "connecting"}
                        \/ cl[c].pcs[i].ice \in {"new", "checking"}
                  THEN /\ cl'[c].peers = cl[c].peers
                       /\ cl'[c].pcs = cl[c].pcs
                       /\ cl'[c].grace[p] = cl[c].grace[p] + 1
                  ELSE /\ cl'[c].peers[p] = NoPc
                       /\ cl'[c].pcs[i].sig = "closed"
                       /\ cl'[c].grace = cl[c].grace]_vars
  /\ [][\A c \in Sockets, p \in Pids :
          GraceTimerFires(c, p)
          => /\ cl'[c].peers[p] = NoPc
             /\ OpenLinks(c, p)' = {}]_vars

\* the user_left of the peer found its connection in an early state, and the
\* timer armed then has removed it
C25_Witness ==
  /\ cl[Page].noted = {<<"delayed", PidOf(Peer)>>, <<"expired", PidOf(Peer)>>}
  /\ cl[Page].mounted
  /\ cl[Page].peers[PidOf(Peer)] = NoPc
  /\ cl[Page].pcs[1].sig = "closed"
  /\ cl[Page].grace[PidOf(Peer)] = 0

\* ---- signalling for a peer the page holds no connection to
\* C30: an rtc_answer or rtc_ice_candidate of a peer the page holds no
\* connection to creates no connection, sends nothing and leaves the peer
\* table, the pending queues and all timers as they were.
C30_StraySignalIsDropped ==
  [][\A c \in Sockets :
       (/\ Receive(c)
        /\ cl[c].handlers
        /\ Head(cl[c].inbox).type \in {"rtc_answer", "rtc_ice_candidate"}
        /\ cl[c].peers[Head(cl[c].inbox).fromId] = NoPc)
       => [cl'[c] EXCEPT !.noted = {}] = [cl[c] EXCEPT !.inbox = Tail(@), !.noted = {}]]_vars

\* an answer reached the page after the connection it was for had been
\* removed
C30_Witness ==
  /\ cl[Page].noted = {<<"unanswered", PidOf(Peer)>>}
  /\ cl[Page].pcs # <<>>
  /\ cl[Page].peers[PidOf(Peer)] = NoPc

\* ---- the audio room: the drain of startMic
\* the peers named by the pending queues of a page in state st
QueuedPeers(st) ==
  {st.pendingUsers[i] : i \in DOMAIN st.pendingUsers}
    \cup {st.pendingOffers[i].fromId : i \in DOMAIN st.pendingOffers}

\* the awaits of kind k of a page in state st that are on a connection that
\* is not closed
LiveTasks(st, k) == {t \in st.tasks : t.kind = k /\ st.pcs[t.pc].sig # "closed"}

\* C31: when the microphone stream becomes available the pending users are
\* handled first and the pending offers second; afterwards both queues are
\* empty, every queued peer has exactly one connection, an rtc_offer is sent
\* for each queued peer that had no connection and an rtc_answer for each
\* queued offer.
C31_DrainServesBothQueues ==
  /\ [][\A c \in Sockets :
          StartMicResolved(c)
          => /\ cl'[c].pendingUsers = <<>>
             /\ cl'[c].pendingOffers = <<>>
             /\ \A p \in QueuedPeers(cl[c]) :
                  /\ cl'[c].peers[p] # NoPc
                  /\ OpenLinksOf(cl'[c], p) = {cl'[c].peers[p]}
             /\ \A i \in DOMAIN cl[c].pendingUsers :
                  cl[c].peers[cl[c].pendingUsers[i]] = NoPc
                  => Cardinality({t \in LiveTasks(cl'[c], "offer") :
                                    t.peer = cl[c].pendingUsers[i]}) = 1
             /\ \A i \in DOMAIN cl[c].pendingOffers :
                  Cardinality({t \in LiveTasks(cl'[c], "answer") :
                                 /\ t.peer = cl[c].pendingOffers[i].fromId
                                 /\ t.arg = cl[c].pendingOffers[i].offer}) = 1]_vars
  /\ [][\A c \in Sockets : \A t \in cl[c].tasks :
          /\ ContinueConnectToPeer(c, t)
             => cl'[c].outbox = Append(cl[c].outbox,
                                       [type |-> "rtc_offer", targetId |-> t.peer,
                                        payload |-> <<c, t.pc>>])
          /\ ContinueHandleOffer(c, t)
             => cl'[c].outbox = Append(cl[c].outbox,
                                       [type |-> "rtc_answer", targetId |-> t.peer,
                                        payload |-> [pc |-> <<c, t.pc>>, re |-> t.arg]])]_vars

\* ---- the relay: a connection and the maps
\* C32: between message handlers, for every open socket: if its current room
\* is r, the map of r holds the socket's participant ID with that socket; if
\* its current room is null, no map holds an entry with that socket.
C32_CurrentRoomIsRecorded ==
  \A s \in Sockets :
    conn[s] = "open"
    => IF currentRoom[s] # NoRoom
         THEN /\ MapHas(rooms[currentRoom[s]], participantId[s])
              /\ rooms[currentRoom[s]][MapGet(rooms[currentRoom[s]], participantId[s])].ws = s
         ELSE \A r \in RoomIds : EntriesOf(rooms[r], s) = 0

\* C33: once the close event of a socket has been handled, no membership map
\* holds an entry with that socket, whatever joins the socket sent before.
C33_ClosedSocketIsForgotten ==
  \A s \in Sockets :
    conn[s] = "closed" => \A r \in RoomIds : EntriesOf(rooms[r], s) = 0

\* C34: a leave or close of one socket deletes no membership record that
\* holds another socket and announces no user_left for such a record, even
\* when both sockets joined the room under one participant ID.
C34_DepartSparesOtherSockets ==
  [][\A s \in Sockets :
       (Leave(s) \/ Close(s))
       => \A r \in RoomIds : \A i \in DOMAIN rooms[r] :
            rooms[r][i].ws # s
            => /\ \E j \in DOMAIN rooms'[r] : rooms'[r][j] = rooms[r][i]
               /\ \A k \in DOMAIN sent' :
                    ~ /\ sent'[k].msg.type = "user_left"
                      /\ sent'[k].msg.participantId = rooms[r][i].id
                      /\ sent'[k].msg.roomId = r]_vars

\* ---- an offer of a peer the page is making an offer to
\* the replacements of page c whose old connection was awaiting its offer,
\* and whose fresh connection no later offer replaced
Superseded(c) ==
  {r \in cl[c].replaced :
     r.pending /\ ~\E r2 \in cl[c].replaced : r2.old = r.fresh}

\* C35: when an rtc_offer of X is handled while connectToPeer(X) awaits its
\* offer, the error path of that attempt does not remove the connection made
\* for X's offer: once both handlers have finished the peer table holds that
\* connection and an rtc_answer was sent to X.
C35_SupersededOfferSparesLink ==
  /\ [][\A c \in Sockets : \A t \in cl[c].tasks :
          (/\ RejectOnClosed(c, t)
           /\ t.kind = "offer"
           /\ cl[c].peers[t.peer] \notin {NoPc, t.pc})
          => /\ cl'[c].peers[t.peer] = cl[c].peers[t.peer]
             /\ cl'[c].pcs[cl[c].peers[t.peer]].sig # "closed"]_vars
  /\ [](\A c \in Sockets : \A r \in Superseded(c) :
          (~\E t \in cl[c].tasks : t.pc \in {r.old, r.fresh})
          => /\ cl[c].peers[cl[c].pcs[r.fresh].peer] = r.fresh
             /\ cl[c].pcs[r.fresh].sig # "closed"
             /\ \E i \in DOMAIN cl[c].answers :
                  /\ cl[c].answers[i].re = r.offer
                  /\ cl[c].answers[i].to = cl[c].pcs[r.fresh].peer)

\* ---- a peer that left and came back
\* C36: a user_left of X tears down no connection to X that was created
\* after the user_left was received, by a later user_joined of X or a later
\* offer of X: neither when its delayed callback runs nor when the grace
\* timer that callback armed fires.
C36_UserLeftSparesLaterLink ==
  /\ [][\A c \in Sockets :
          (/\ DispatchUserLeft(c)
           /\ cl[c].handlers
           /\ cl[c].peers[Head(cl[c].deferred).peer] > Head(cl[c].deferred).had)
          => LET p == Head(cl[c].deferred).peer
             IN /\ cl'[c].peers[p] = cl[c].peers[p]
                /\ cl'[c].pcs[cl[c].peers[p]].sig # "closed"]_vars
  /\ [][\A c \in Sockets, p \in Pids :
          (/\ GraceTimerFires(c, p)
           /\ cl[c].peers[p] > Head(cl[c].graceOf[p]))
          => /\ cl'[c].peers[p] = cl[c].peers[p]
             /\ cl'[c].pcs[cl[c].peers[p]].sig # "closed"]_vars

\* ---- the audio room: a queued peer that left
\* C37: when user_left of X is dispatched while X waits in the pending users
\* or the pending offers, X is dropped from them, so that the drain creates
\* no connection for, and starts no offer or answer to, a peer that has left.
\* X has left: it is in no map of the audio room and every message written
\* to the page has been handled.
C37_LeftPeerLeavesTheQueues ==
  /\ [][\A c \in Sockets :
          (/\ DispatchUserLeftAudio(c)
           /\ cl[c].inbox = <<>>
           /\ Head(cl[c].deferred).peer \notin KeySet(rooms[AudioRoom]))
          => Head(cl[c].deferred).peer \notin QueuedPeers(cl'[c])]_vars
  /\ [][\A c \in Sockets :
          (/\ StartMicResolved(c)
           /\ cl[c].inbox = <<>>
           /\ cl[c].deferred = <<>>)
          => \A p \in Pids \ KeySet(rooms[AudioRoom]) :
               /\ cl'[c].peers[p] = NoPc
               /\ OpenLinksOf(cl'[c], p) = {}
               /\ ~\E t \in cl'[c].tasks : t.peer = p]_vars

\* ---- the list of the others in the room
SetOf(seq) == {seq[i] : i \in DOMAIN seq}

\* nothing is on its way between a client and the relay, and the relay has
\* seen the end of every socket that dropped
NothingInFlight ==
  /\ \A k \in Clients : cl[k].inbox = <<>> /\ cl[k].outbox = <<>>
  /\ \A s \in Sockets : conn[s] = "open" => \E k \in Clients : cl[k].up /\ cl[k].ws = s

\* client k is in room r for itself and for the relay
JoinedTo(k, r) ==
  /\ cl[k].up
  /\ cl[k].roomRef = r
  /\ currentRoom[cl[k].ws] = r

\* C38: whenever no message is in flight, the roomUsers of every client that
\* is joined to a room are the participant IDs of that room's membership map
\* other than its own, after any joins, leaves, room switches and reconnects.
C38_RoomUsersFollowTheMap ==
  NothingInFlight
  => \A k \in Clients, r \in RoomIds :
       JoinedTo(k, r) => SetOf(cl[k].roomUsers) = KeySet(rooms[r]) \ {PidOf(k)}

\* ---- the reconnect
\* the socket of client k opens again after it had closed
Reopens(k) == cl[k].drops > 0 /\ ~cl[k].up /\ cl'[k].up

\* what client k has written to its socket is one join or more, all of
\* them for room r under its participant ID
JoinsOnly(out, k, r) ==
  /\ out # <<>>
  /\ \A i \in DOMAIN out :
       out[i] = [type |-> "join", roomId |-> r, participantId |-> PidOf(k)]

\* C39: after the socket of a client closes, the client eventually opens a
\* new one; on it it sends join with its participant ID for the room that is
\* current when the socket opens, and no join when no room is current then.
C39_ReconnectJoinsCurrentRoom ==
  /\ [][\A k \in Clients :
          Reopens(k) =>
            IF cl[k].roomRef = NoRoom
              THEN cl'[k].outbox = <<>>
              ELSE /\ JoinsOnly(cl'[k].outbox, k, cl[k].roomRef)
                   /\ cl'[k].roomRef = cl[k].roomRef]_vars
  /\ (cl[FirstClient].retry /\ ~cl[FirstClient].up) ~> cl[FirstClient].up

\* a client whose socket had closed has opened a new one and joined again
C39_Witness ==
  \E k \in Clients : cl[k].up /\ cl[k].drops > 0 /\ cl[k].rejoined # {}

\* C39 as it was stated: the join is for the room that was current when
\* the socket closed, and no join is sent when that room was left since.
C39_ReconnectJoinsRoomOfClose ==
  [][\A k \in Clients :
       (Reopens(k) /\ cl[k].closedIn # NoRoom) =>
         IF cl[k].roomRef = cl[k].closedIn
           THEN JoinsOnly(cl'[k].outbox, k, cl[k].closedIn)
           ELSE cl'[k].outbox = <<>>]_vars

\* ---- the recovery timer and the connection that replaced its own
\* the timer of peer p was set by a connection other than the one peersRef
\* holds now, and that one was made by handleOffer in place of another
StaleTimer(st, p) ==
  /\ st.timers[p] # "none"
  /\ st.peers[p] # NoPc
  /\ st.armedFor[p] # st.peers[p]
  /\ \E e \in st.replaced : e.fresh = st.peers[p]

====
